---- MODULE Spec2Model ----
(***************************************************************************)
(* Folder Manager: the core folder operations of utils/folder_operations.py *)
(* over a small filesystem.                                                 *)
(*                                                                          *)
(* A file name is a sequence of characters, a path is a sequence of names.  *)
(* The filesystem maps every existing path to its node.  An external actor  *)
(* (the user, other programs) builds the tree before an operation starts    *)
(* and may touch it a bounded number of times while an operation runs.      *)
(***************************************************************************)
EXTENDS Integers, Sequences, FiniteSets, TLC

VARIABLES
    fs,            \* the filesystem: existing path -> [kind, content]
    noRead,        \* directories whose listing raises PermissionError
    noWrite,       \* directories in which no entry can be added or removed
    pc,            \* position of the running operation
    root,          \* the operation's root_path argument
    emptyFolders,  \* the list returned by scan_empty_folder_structure
    sortedPaths,   \* delete_empty_folders: sorted_paths
    idx,           \* delete_empty_folders: position in sorted_paths
    successCount,  \* success_count
    errors,        \* errors (records standing for the error strings)
    log,           \* the records handed to logging
    fs0,           \* the filesystem when the operation started
    touched,       \* how often the external actor acted since then
    op,            \* the operation that was started
    conflictMode,  \* flatten_to_root: conflict_mode
    pending,       \* flatten_to_root: the files of all_files still to process
    todo,          \* flatten_to_root: the directories of dirs still to process
    moved,         \* result['moved']
    skipped,       \* result['skipped_conflicts']
    removedFolders,\* result['removed_folders']
    moves,         \* result['moves']
    sourceDirs,    \* create_folder_structure: source_paths
    dest,          \* create_folder_structure: destination_root
    rootOnly,      \* count_files_action: root_only
    total,         \* count_files_action: total
    files,         \* count_files_recursive: files
    pathStr,       \* validate_path: path_str, a sequence of characters
    isValid,       \* validate_path: is_valid
    errorMessage,  \* validate_path: error_message
    pathObject,    \* validate_path: path_object, a sequence of path segments
    inFolder,      \* count_files_in_folder: (total_file_count, list_of_all_files)
    details,       \* count_files_with_details: details
    selectedDeletePath, \* FolderManagerApp.selected_delete_path, or "None"
    scanBtn,       \* the state of scan_btn
    deleteBtn,     \* the state of delete_btn
    dialog,        \* the message box that is open, or "none"
    asked,         \* the number of folders named in the open confirmation
    shown,         \* the folders listed in delete_results_text
    scanWorkers,   \* the scan threads started that have not run yet
    deleteWorkers, \* the delete threads, in the order of their start
    afterQueue,    \* the callbacks handed to root.after(0, ...), oldest first
    clicks         \* the clicks on the two buttons so far

flattenVars == <<conflictMode, pending, todo, moved, skipped, removedFolders, moves>>
replicateVars == <<sourceDirs, dest>>
countVars == <<rootOnly, total, files>>
validateVars == <<pathStr, isValid, errorMessage, pathObject>>
detailVars == <<inFolder, details>>
guiVars == <<selectedDeletePath, scanBtn, deleteBtn, dialog, asked, shown,
             scanWorkers, deleteWorkers, afterQueue, clicks>>

vars == <<fs, noRead, noWrite, pc, root, emptyFolders, sortedPaths, idx,
          successCount, errors, log, fs0, touched, op, flattenVars, replicateVars,
          countVars, validateVars, detailVars, guiVars>>

----------------------------------------------------------------------------
(* Bounds of the model *)

\* entries that are no directories, external actions while an operation runs,
\* paths in a list handed to delete_empty_folders
MaxLeaves == 3
MaxTouch == 1
MaxBatch == 2

----------------------------------------------------------------------------
(* Names and paths *)

NameR == <<"R">>
NameX == <<"x">>
NameY == <<"y">>
NameA == <<"a", ".", "t">>
NameS == <<"s">>
NameA1 == <<"a", " ", "(", "1", ")", ".", "t">>
NameD == <<"D">>

DirNames == {NameX, NameY}

\* the filesystem's top directory and the folder the user selects
Top == <<>>
Root == <<NameR>>

parent(p) == SubSeq(p, 1, Len(p) - 1)
name(p) == p[Len(p)]
\* len(p.parts), up to the anchor every absolute path has
depth(p) == Len(p)
join(d, n) == Append(d, n)

\* the directories the external actor may create
DirUniverse == {join(Root, NameX), join(Root, NameY),
                join(join(Root, NameX), NameX), join(join(Root, NameX), NameY)}
\* the directories the external actor may take a permission from
Deniable == {Root, join(Root, NameX)}

IsPrefix(a, p) == Len(a) <= Len(p) /\ SubSeq(p, 1, Len(a)) = a
IsProperPrefix(a, p) == Len(a) < Len(p) /\ SubSeq(p, 1, Len(a)) = a

----------------------------------------------------------------------------
(* Filesystem queries: pathlib over the current state *)

DirNode == [kind |-> "dir", content |-> <<>>]
OtherNode == [kind |-> "other", content |-> <<>>]
FileNode(c) == [kind |-> "file", content |-> c]

exists(p) == p \in DOMAIN fs
is_dir(p) == p \in DOMAIN fs /\ fs[p].kind = "dir"
is_file(p) == p \in DOMAIN fs /\ fs[p].kind = "file"

Entries(f, d) == {p \in DOMAIN f : Len(p) = Len(d) + 1 /\ parent(p) = d}
Below(f, d) == {p \in DOMAIN f : IsProperPrefix(d, p)}
FilesBelow(f, d) == {p \in Below(f, d) : f[p].kind = "file"}

\* a fixed order of the names, standing for the order the OS lists entries in
NameOrder == <<NameX, NameY, NameA, NameS>>

RECURSIVE SetToSeq(_)
SetToSeq(S) ==
    IF S = {} THEN <<>>
    ELSE LET x == CHOOSE y \in S : TRUE
         IN <<x>> \o SetToSeq(S \ {x})

\* list(path.iterdir()) of a listable directory
iterdir(d) ==
    LET known == SelectSeq(NameOrder, LAMBDA n : join(d, n) \in DOMAIN fs)
        rest == {p \in Entries(fs, d) : \A i \in 1..Len(NameOrder) : name(p) # NameOrder[i]}
    IN [i \in 1..Len(known) |-> join(d, known[i])] \o SetToSeq(rest)

InSeq(x, s) == \E i \in 1..Len(s) : s[i] = x
Range(s) == {s[i] : i \in 1..Len(s)}

RECURSIVE Concat(_)
Concat(ss) == IF ss = <<>> THEN <<>> ELSE Head(ss) \o Concat(Tail(ss))

----------------------------------------------------------------------------
(* is_folder_empty, scan_empty_folder_structure *)

\* a listing that permissions never stop
iterdir_always_allowed(p) == ~is_dir(p)

\* path.iterdir() raises: the path is missing, is no directory or may not be read
iterdir_raises(p) == ~is_dir(p) \/ p \in noRead

is_folder_empty(folder_path) ==
    IF iterdir_raises(folder_path) THEN FALSE
    ELSE iterdir(folder_path) = <<>>

\* the scan without its test of the subdirectories: a folder with no file
\* directly in it counts as empty
RECURSIVE scan_ignoring_subdirs(_)
scan_ignoring_subdirs(root_path) ==
    IF ~exists(root_path) \/ ~is_dir(root_path) THEN <<>>
    ELSE IF iterdir_raises(root_path) THEN <<>>
    ELSE
      LET items == iterdir(root_path)
          has_files == \E i \in 1..Len(items) : is_file(items[i])
          subdirectories == SelectSeq(items, is_dir)
          subs == [i \in 1..Len(subdirectories) |->
                      scan_ignoring_subdirs(subdirectories[i])]
      IN IF items = <<>> THEN <<root_path>>
         ELSE IF has_files THEN Concat(subs)
         ELSE Append(Concat(subs), root_path)

\* the scan that does not look below a folder with files in it
RECURSIVE scan_parent_protects(_)
scan_parent_protects(root_path) ==
    IF ~exists(root_path) \/ ~is_dir(root_path) THEN <<>>
    ELSE IF iterdir_raises(root_path) THEN <<>>
    ELSE
      LET items == iterdir(root_path)
          has_files == \E i \in 1..Len(items) : is_file(items[i])
          subdirectories == SelectSeq(items, is_dir)
          subs == [i \in 1..Len(subdirectories) |->
                      scan_parent_protects(subdirectories[i])]
          all_subdirs_empty ==
              \A i \in 1..Len(subdirectories) : InSeq(subdirectories[i], subs[i])
      IN IF items = <<>> THEN <<root_path>>
         ELSE IF has_files THEN <<>>
         ELSE IF all_subdirs_empty THEN Append(Concat(subs), root_path)
         ELSE Concat(subs)

\* the scan that asks of a subdirectory only whether files lie directly in it
RECURSIVE scan_one_level_deep(_)
scan_one_level_deep(root_path) ==
    IF ~exists(root_path) \/ ~is_dir(root_path) THEN <<>>
    ELSE IF iterdir_raises(root_path) THEN <<>>
    ELSE
      LET items == iterdir(root_path)
          has_files == \E i \in 1..Len(items) : is_file(items[i])
          subdirectories == SelectSeq(items, is_dir)
          subs == [i \in 1..Len(subdirectories) |->
                      scan_one_level_deep(subdirectories[i])]
          all_subdirs_empty ==
              \A i \in 1..Len(subdirectories) :
                  \A q \in Entries(fs, subdirectories[i]) : ~is_file(q)
      IN IF items = <<>> THEN <<root_path>>
         ELSE IF has_files THEN Concat(subs)
         ELSE IF all_subdirs_empty THEN Append(Concat(subs), root_path)
         ELSE Concat(subs)

\* the scan that is content with one empty subdirectory
RECURSIVE scan_some_subdir_empty(_)
scan_some_subdir_empty(root_path) ==
    IF ~exists(root_path) \/ ~is_dir(root_path) THEN <<>>
    ELSE IF iterdir_raises(root_path) THEN <<>>
    ELSE
      LET items == iterdir(root_path)
          has_files == \E i \in 1..Len(items) : is_file(items[i])
          subdirectories == SelectSeq(items, is_dir)
          subs == [i \in 1..Len(subdirectories) |->
                      scan_some_subdir_empty(subdirectories[i])]
          all_subdirs_empty ==
              \E i \in 1..Len(subdirectories) : InSeq(subdirectories[i], subs[i])
      IN IF items = <<>> THEN <<root_path>>
         ELSE IF has_files THEN Concat(subs)
         ELSE IF all_subdirs_empty THEN Append(Concat(subs), root_path)
         ELSE Concat(subs)

RECURSIVE scan_empty_folder_structure(_)
scan_empty_folder_structure(root_path) ==
    IF ~exists(root_path) \/ ~is_dir(root_path) THEN <<>>
    ELSE IF iterdir_raises(root_path) THEN <<>>
    ELSE
      LET items == iterdir(root_path)
          has_files == \E i \in 1..Len(items) : is_file(items[i])
          subdirectories == SelectSeq(items, is_dir)
          subs == [i \in 1..Len(subdirectories) |->
                      scan_empty_folder_structure(subdirectories[i])]
          all_subdirs_empty ==
              \A i \in 1..Len(subdirectories) : InSeq(subdirectories[i], subs[i])
      IN IF items = <<>> THEN <<root_path>>
         ELSE IF has_files THEN Concat(subs)
         ELSE IF all_subdirs_empty THEN Append(Concat(subs), root_path)
         ELSE Concat(subs)

----------------------------------------------------------------------------
(* sorted(paths, key=lambda p: len(p.parts), reverse=True): a stable sort *)

InsertDeepestFirst(s, x) ==
    LET k == Cardinality({i \in 1..Len(s) : depth(s[i]) >= depth(x)})
    IN SubSeq(s, 1, k) \o <<x>> \o SubSeq(s, k + 1, Len(s))

\* the loop over folder_paths as they were given, without the sort
sorted_as_given(s) == s

RECURSIVE SortDeepestFirst(_)
SortDeepestFirst(s) ==
    IF s = <<>> THEN <<>>
    ELSE InsertDeepestFirst(SortDeepestFirst(SubSeq(s, 1, Len(s) - 1)), s[Len(s)])

----------------------------------------------------------------------------
(* The operating system's side of a mutation *)

Remove(f, P) == [q \in DOMAIN f \ P |-> f[q]]
Put(f, p, node) == [q \in DOMAIN f \cup {p} |-> IF q = p THEN node ELSE f[q]]

Raised == [raised |-> TRUE, fs |-> fs]
RaisedAt(f) == [raised |-> TRUE, fs |-> f]
Done(f) == [raised |-> FALSE, fs |-> f]

\* shutil.rmtree in the place of rmdir: the whole subtree goes
rmtree(p) ==
    IF is_dir(p) /\ p # Top /\ parent(p) \notin noWrite
    THEN Done(Remove(fs, {p} \cup Below(fs, p)))
    ELSE Raised

\* path.rmdir(): removes an empty directory whose parent may be written, and
\* raises OSError otherwise
rmdir(p) ==
    IF is_dir(p) /\ Entries(fs, p) = {} /\ p # Top /\ parent(p) \notin noWrite
    THEN Done(Remove(fs, {p}))
    ELSE Raised

----------------------------------------------------------------------------------------------------------------------------------------------
(* The external actor: it builds the tree before an operation starts, and   *)
(* acts at most MaxTouch times while an operation runs.                     *)

Running == pc \notin {"idle", "done"}

Dirs == {p \in DOMAIN fs : fs[p].kind = "dir"}
Leaves == {p \in DOMAIN fs : fs[p].kind # "dir"}

\* somebody creates an entry: a directory, a file, or an entry that is
\* neither (a socket, a FIFO, a device)
Create(p, node) ==
    /\ is_dir(parent(p)) /\ IsPrefix(Root, parent(p))
    /\ p \notin DOMAIN fs
    /\ IF node.kind = "dir" THEN p \in DirUniverse
       ELSE Cardinality(Leaves) < MaxLeaves
    /\ fs' = Put(fs, p, node)

SetupMkdir(d, n) ==
    /\ pc = "idle"
    /\ Create(join(d, n), DirNode)
    /\ UNCHANGED <<noRead, noWrite, pc, root, emptyFolders, sortedPaths, idx,
                   successCount, errors, log, fs0, touched>>
    /\ UNCHANGED <<op, flattenVars, replicateVars, countVars, validateVars,
                   detailVars, guiVars>>

SetupFile(d, n) ==
    /\ pc = "idle"
    /\ Create(join(d, n), FileNode(join(d, n)))
    /\ UNCHANGED <<noRead, noWrite, pc, root, emptyFolders, sortedPaths, idx,
                   successCount, errors, log, fs0, touched>>
    /\ UNCHANGED <<op, flattenVars, replicateVars, countVars, validateVars,
                   detailVars, guiVars>>

SetupOther(d, n) ==
    /\ pc = "idle"
    /\ Create(join(d, n), OtherNode)
    /\ UNCHANGED <<noRead, noWrite, pc, root, emptyFolders, sortedPaths, idx,
                   successCount, errors, log, fs0, touched>>
    /\ UNCHANGED <<op, flattenVars, replicateVars, countVars, validateVars,
                   detailVars, guiVars>>

SetupDenyRead(d) ==
    /\ pc = "idle"
    /\ is_dir(d) /\ d \in Deniable
    /\ noRead = {} /\ noWrite = {}
    /\ noRead' = noRead \cup {d}
    /\ UNCHANGED <<fs, noWrite, pc, root, emptyFolders, sortedPaths, idx,
                   successCount, errors, log, fs0, touched>>
    /\ UNCHANGED <<op, flattenVars, replicateVars, countVars, validateVars,
                   detailVars, guiVars>>

SetupDenyWrite(d) ==
    /\ pc = "idle"
    /\ is_dir(d) /\ d \in Deniable
    /\ noRead = {} /\ noWrite = {}
    /\ noWrite' = noWrite \cup {d}
    /\ UNCHANGED <<fs, noRead, pc, root, emptyFolders, sortedPaths, idx,
                   successCount, errors, log, fs0, touched>>
    /\ UNCHANGED <<op, flattenVars, replicateVars, countVars, validateVars,
                   detailVars, guiVars>>

\* while an operation runs, somebody else adds an entry
RaceCreate(d, n, node) ==
    /\ Running /\ touched < MaxTouch
    /\ Create(join(d, n), IF node.kind = "file" THEN FileNode(join(d, n)) ELSE node)
    /\ touched' = touched + 1
    /\ UNCHANGED <<noRead, noWrite, pc, root, emptyFolders, sortedPaths, idx,
                   successCount, errors, log, fs0>>
    /\ UNCHANGED <<op, flattenVars, replicateVars, countVars, validateVars,
                   detailVars, guiVars>>

\* while an operation runs, somebody else removes a leaf
RaceRemove(p) ==
    /\ Running /\ touched < MaxTouch
    /\ p \in DOMAIN fs /\ IsPrefix(Root, p)
    /\ Entries(fs, p) = {}
    /\ fs' = Remove(fs, {p})
    /\ noRead' = noRead \ {p}
    /\ noWrite' = noWrite \ {p}
    /\ touched' = touched + 1
    /\ UNCHANGED <<pc, root, emptyFolders, sortedPaths, idx,
                   successCount, errors, log, fs0>>
    /\ UNCHANGED <<op, flattenVars, replicateVars, countVars, validateVars,
                   detailVars, guiVars>>

----------
(* scan_empty_folder_structure followed by delete_empty_folders *)

Error(m, p) == [msg |-> m, path |-> p]
Log(l, m, p) == [level |-> l, msg |-> m, path |-> p]

\* the folders a caller may select
ArgPaths == {Root, join(Root, NameX), join(Root, NameA)}

\* every list of at most MaxBatch paths a caller may hand to delete_empty_folders
BatchPaths == {join(Root, NameX), join(join(Root, NameX), NameY), join(Root, NameA)}
Batches == UNION {[1..n -> BatchPaths] : n \in 0..MaxBatch}

Scan(r) ==
    /\ pc = "idle"
    /\ root' = r
    /\ emptyFolders' = scan_empty_folder_structure(r)
    /\ pc' = "scanned"
    /\ fs0' = fs
    /\ touched' = 0
    /\ UNCHANGED <<fs, noRead, noWrite, sortedPaths, idx, successCount, errors, log>>
    /\ op' = "delete"
    /\ UNCHANGED <<flattenVars, replicateVars, countVars, validateVars, detailVars, guiVars>>

\* the first statements of delete_empty_folders(folder_paths)
delete_begin(folder_paths) ==
    /\ sortedPaths' = SortDeepestFirst(folder_paths)
    /\ idx' = 1
    /\ successCount' = 0
    /\ errors' = <<>>
    /\ pc' = IF folder_paths = <<>> THEN "done" ELSE "check"

DeleteScanned ==
    /\ pc = "scanned"
    /\ delete_begin(emptyFolders)
    /\ UNCHANGED <<fs, noRead, noWrite, root, emptyFolders, log, fs0, touched>>
    /\ UNCHANGED <<op, flattenVars, replicateVars, countVars, validateVars,
                   detailVars, guiVars>>

DeleteBatch(b) ==
    /\ pc = "idle"
    /\ emptyFolders' = b
    /\ delete_begin(b)
    /\ fs0' = fs
    /\ touched' = 0
    /\ UNCHANGED <<fs, noRead, noWrite, root, log>>
    /\ op' = "delete"
    /\ UNCHANGED <<flattenVars, replicateVars, countVars, validateVars, detailVars, guiVars>>

NextPath ==
    /\ idx' = idx + 1
    /\ pc' = IF idx + 1 > Len(sortedPaths) THEN "done" ELSE "check"

\* the tests of one iteration, leaving the loop at a path that is missing
DeleteCheckAborting ==
    /\ pc = "check"
    /\ LET folder_path == sortedPaths[idx] IN
         IF exists(folder_path) /\ is_dir(folder_path) THEN
           IF is_folder_empty(folder_path) THEN
             /\ pc' = "rmdir"
             /\ UNCHANGED <<idx, errors, log>>
           ELSE
             /\ errors' = Append(errors, Error("Folder not empty, skipping", folder_path))
             /\ log' = Append(log, Log("warning", "Folder not empty, skipping", folder_path))
             /\ NextPath
         ELSE
           /\ errors' = Append(errors, Error("Path does not exist or is not a directory", folder_path))
           /\ log' = Append(log, Log("warning", "Path does not exist or is not a directory", folder_path))
           /\ idx' = idx + 1
           /\ pc' = "done"
    /\ UNCHANGED <<fs, noRead, noWrite, root, emptyFolders, sortedPaths,
                   successCount, fs0, touched>>
    /\ UNCHANGED <<op, flattenVars, replicateVars, countVars, validateVars,
                   detailVars, guiVars>>

\* the tests of one iteration, up to the call of rmdir
DeleteCheck ==
    /\ pc = "check"
    /\ LET folder_path == sortedPaths[idx] IN
         IF exists(folder_path) /\ is_dir(folder_path) THEN
           IF is_folder_empty(folder_path) THEN
             /\ pc' = "rmdir"
             /\ UNCHANGED <<idx, errors, log>>
           ELSE
             /\ errors' = Append(errors, Error("Folder not empty, skipping", folder_path))
             /\ log' = Append(log, Log("warning", "Folder not empty, skipping", folder_path))
             /\ NextPath
         ELSE
           /\ errors' = Append(errors, Error("Path does not exist or is not a directory", folder_path))
           /\ log' = Append(log, Log("warning", "Path does not exist or is not a directory", folder_path))
           /\ NextPath
    /\ UNCHANGED <<fs, noRead, noWrite, root, emptyFolders, sortedPaths,
                   successCount, fs0, touched>>
    /\ UNCHANGED <<op, flattenVars, replicateVars, countVars, validateVars,
                   detailVars, guiVars>>

\* folder_path.rmdir() and what follows it
DeleteRmdir ==
    /\ pc = "rmdir"
    /\ LET folder_path == sortedPaths[idx] IN
         IF ~rmdir(folder_path).raised THEN
           /\ fs' = rmdir(folder_path).fs
           /\ noRead' = noRead \cap DOMAIN fs'
           /\ noWrite' = noWrite \cap DOMAIN fs'
           /\ successCount' = successCount + 1
           /\ log' = Append(log, Log("info", "Deleted empty folder", folder_path))
           /\ UNCHANGED errors
         ELSE
           /\ errors' = Append(errors, Error("Error deleting", folder_path))
           /\ log' = Append(log, Log("error", "Error deleting", folder_path))
           /\ UNCHANGED <<fs, noRead, noWrite, successCount>>
    /\ NextPath
    /\ UNCHANGED <<root, emptyFolders, sortedPaths, fs0, touched>>
    /\ UNCHANGED <<op, flattenVars, replicateVars, countVars, validateVars,
                   detailVars, guiVars>>

----------------------------------------------------------------------------------------------------------------------------------------------
(* flatten_to_root *)

\* Path(name).suffix and Path(name).stem: the name is cut at its last dot,
\* unless that dot is the first or the last character
LastDot(nm) ==
    LET dots == {i \in 1..Len(nm) : nm[i] = "."}
    IN IF dots = {} THEN 0 ELSE CHOOSE i \in dots : \A j \in dots : j <= i
HasSuffix(nm) == 1 < LastDot(nm) /\ LastDot(nm) < Len(nm)
suffix(nm) == IF HasSuffix(nm) THEN SubSeq(nm, LastDot(nm), Len(nm)) ELSE <<>>
stem(nm) == IF HasSuffix(nm) THEN SubSeq(nm, 1, LastDot(nm) - 1) ELSE nm

\* str(counter)
DigitChars == <<"0", "1", "2", "3", "4", "5", "6", "7", "8", "9">>
RECURSIVE str(_)
str(n) ==
    IF n < 10 THEN <<DigitChars[n + 1]>>
    ELSE str(n \div 10) \o <<DigitChars[(n % 10) + 1]>>

\* f"{stem} ({counter}){suffix}"
Numbered(nm, counter) ==
    stem(nm) \o <<" ", "(">> \o str(counter) \o <<")">> \o suffix(nm)

\* the loop of _unique_destination, entered with candidate and counter
RECURSIVE unique_loop(_, _, _, _)
unique_loop(rt, nm, candidate, counter) ==
    IF exists(candidate)
    THEN unique_loop(rt, nm, join(rt, Numbered(nm, counter)), counter + 1)
    ELSE candidate

\* _unique_destination without its loop: the first numbered name, free or not
unique_destination_once(rt, nm) ==
    IF exists(join(rt, nm)) THEN join(rt, Numbered(nm, 1)) ELSE join(rt, nm)

unique_destination(rt, nm) == unique_loop(rt, nm, join(rt, nm), 1)

\* the directories from r down to the parent of p can all be listed
Listed(r, p) ==
    \A d \in noRead : ~(IsPrefix(r, d) /\ IsProperPrefix(d, p))

\* root_path.rglob('*'): everything below r; what lies in a directory that may
\* not be read is left out without an error
rglob(r) == {p \in Below(fs, r) : Listed(r, p)}

\* path.mkdir(parents=True, exist_ok=True) on the filesystem f
RECURSIVE mkdir_p(_, _)
mkdir_p(f, p) ==
    IF p \in DOMAIN f THEN
        IF f[p].kind = "dir" THEN Done(f) ELSE RaisedAt(f)
    ELSE
        LET up == mkdir_p(f, parent(p))
        IN IF up.raised THEN up
           ELSE IF parent(p) \in noWrite THEN RaisedAt(up.fs)
           ELSE Done(Put(up.fs, p, DirNode))

\* os.rename(src, dst) of a file is allowed: both directories may be written
\* and dst is no directory
rename_ok(f, src, dst) ==
    /\ src \in DOMAIN f
    /\ parent(dst) \in DOMAIN f /\ f[parent(dst)].kind = "dir"
    /\ ~(dst \in DOMAIN f /\ f[dst].kind = "dir")
    /\ parent(src) \notin noWrite
    /\ parent(dst) \notin noWrite

\* a copy to dst in the place of the move: src stays where it is
shutil_copy(f, src, dst) ==
    IF src \in DOMAIN f /\ parent(dst) \in DOMAIN f /\ parent(dst) \notin noWrite
    THEN Done(Put(f, dst, f[src]))
    ELSE RaisedAt(f)

\* shutil.move(src, dst) of a file on the filesystem f: os.rename, and when
\* that raises OSError, a copy to dst followed by os.unlink(src)
shutil_move(f, src, dst) ==
    LET real_dst == IF dst \in DOMAIN f /\ f[dst].kind = "dir"
                    THEN join(dst, name(src)) ELSE dst
    IN IF dst \in DOMAIN f /\ f[dst].kind = "dir" /\ real_dst \in DOMAIN f
         THEN RaisedAt(f)
       ELSE IF rename_ok(f, src, real_dst)
         THEN Done(Put(Remove(f, {src}), real_dst, f[src]))
       ELSE IF \/ src \notin DOMAIN f
               \/ parent(real_dst) \notin DOMAIN f
               \/ f[parent(real_dst)].kind # "dir"
               \/ (real_dst \in DOMAIN f /\ f[real_dst].kind = "dir")
               \/ (real_dst \notin DOMAIN f /\ parent(real_dst) \in noWrite)
         THEN RaisedAt(f)
       ELSE IF parent(src) \in noWrite
         THEN RaisedAt(Put(f, real_dst, f[src]))
       ELSE Done(Put(Remove(f, {src}), real_dst, f[src]))

\* all_files without the test p.parent != root_path
collect_all_files(r) == {p \in rglob(r) : is_file(p)}

\* all_files: the files below root_path that are not directly in it
collect_files(r) == {p \in rglob(r) : is_file(p) /\ parent(p) # r}

\* dirs with root_path itself among them
collect_dirs_and_root(r) == {d \in rglob(r) \cup {r} : is_dir(d)}

\* dirs taken from root_path.iterdir(): the directories directly in root_path
collect_child_dirs(r) == {d \in Entries(fs, r) : is_dir(d)}

\* dirs: the directories below root_path
collect_dirs(r) == {d \in rglob(r) : is_dir(d)}

\* the test of the conflict mode against a string it never is
skips_misspelt(conflict) == conflict /\ conflictMode = "Skip"

\* if dest.exists(): if conflict_mode == 'skip'
skips(conflict) == conflict /\ conflictMode = "skip"

ConflictModes == {"rename", "skip"}

\* the call without the validation of root_path
FlattenStartUnvalidated(r, mode) ==
    /\ pc = "idle"
    /\ op' = "flatten"
    /\ root' = r
    /\ conflictMode' = mode
    /\ fs0' = fs
    /\ touched' = 0
    /\ moved' = 0 /\ skipped' = 0 /\ removedFolders' = 0 /\ moves' = <<>>
    /\ todo' = {}
    /\ errors' = <<>>
    /\ pending' = collect_files(r)
    /\ pc' = "move"
    /\ UNCHANGED <<fs, noRead, noWrite, emptyFolders, sortedPaths, idx,
                   successCount, log, replicateVars, countVars, validateVars,
                   detailVars, guiVars>>

\* the call up to the first move: the validation of root_path and the
\* collection of all_files, whose enumeration may raise an OSError
FlattenStart(r, mode) ==
    /\ pc = "idle"
    /\ op' = "flatten"
    /\ root' = r
    /\ conflictMode' = mode
    /\ fs0' = fs
    /\ touched' = 0
    /\ moved' = 0 /\ skipped' = 0 /\ removedFolders' = 0 /\ moves' = <<>>
    /\ todo' = {}
    /\ IF ~exists(r) \/ ~is_dir(r) THEN
         /\ errors' = <<Error("Invalid root folder", r)>>
         /\ pending' = {}
         /\ pc' = "done"
         /\ UNCHANGED log
       ELSE
         /\ \E raised \in BOOLEAN :
               IF raised THEN
                 /\ errors' = <<Error("Error scanning", r)>>
                 /\ log' = Append(log, Log("error", "Error scanning", r))
                 /\ pending' = {}
               ELSE
                 /\ errors' = <<>>
                 /\ pending' = collect_files(r)
                 /\ UNCHANGED log
         /\ pc' = "move"
    /\ UNCHANGED <<fs, noRead, noWrite, emptyFolders, sortedPaths, idx,
                   successCount, replicateVars, countVars, validateVars, detailVars, guiVars>>

\* one iteration that leaves the loop when the move raises
FlattenMoveStopping(src) ==
    /\ pc = "move"
    /\ src \in pending
    /\ LET first == join(root, name(src))
           conflict == exists(first)
           target == IF conflict THEN unique_destination(root, name(src)) ELSE first
           made == mkdir_p(fs, parent(target))
           res == IF made.raised THEN made ELSE shutil_move(made.fs, src, target)
       IN IF skips(conflict) THEN
            /\ skipped' = skipped + 1
            /\ pending' = pending \ {src}
            /\ log' = Append(log, Log("info", "Skip due to conflict", src))
            /\ UNCHANGED <<fs, moved, moves, errors>>
          ELSE
            /\ fs' = res.fs
            /\ pending' = IF res.raised THEN {} ELSE pending \ {src}
            /\ IF res.raised THEN
                 /\ errors' = Append(errors, Error("Error moving", src))
                 /\ log' = Append(log, Log("error", "Error moving", src))
                 /\ UNCHANGED <<moved, moves>>
               ELSE
                 /\ moved' = moved + 1
                 /\ moves' = Append(moves, <<src, target>>)
                 /\ log' = Append(log, Log("info", "Moved file", src))
                 /\ UNCHANGED errors
            /\ UNCHANGED skipped
    /\ UNCHANGED <<noRead, noWrite, pc, root, emptyFolders, sortedPaths, idx,
                   successCount, fs0, touched, op, conflictMode, todo,
                   removedFolders, replicateVars, countVars, validateVars,
                   detailVars, guiVars>>

\* one iteration of `for src in all_files`
FlattenMove(src) ==
    /\ pc = "move"
    /\ src \in pending
    /\ pending' = pending \ {src}
    /\ LET first == join(root, name(src))
           conflict == exists(first)
           target == IF conflict THEN unique_destination(root, name(src)) ELSE first
           made == mkdir_p(fs, parent(target))
           res == IF made.raised THEN made ELSE shutil_move(made.fs, src, target)
       IN IF skips(conflict) THEN
            /\ skipped' = skipped + 1
            /\ log' = Append(log, Log("info", "Skip due to conflict", src))
            /\ UNCHANGED <<fs, moved, moves, errors>>
          ELSE
            /\ fs' = res.fs
            /\ IF res.raised THEN
                 /\ errors' = Append(errors, Error("Error moving", src))
                 /\ log' = Append(log, Log("error", "Error moving", src))
                 /\ UNCHANGED <<moved, moves>>
               ELSE
                 /\ moved' = moved + 1
                 /\ moves' = Append(moves, <<src, target>>)
                 /\ log' = Append(log, Log("info", "Moved file", src))
                 /\ UNCHANGED errors
            /\ UNCHANGED skipped
    /\ UNCHANGED <<noRead, noWrite, pc, root, emptyFolders, sortedPaths, idx,
                   successCount, fs0, touched, op, conflictMode, todo,
                   removedFolders, replicateVars, countVars, validateVars,
                   detailVars, guiVars>>

\* after the last file: dirs = [d for d in root_path.rglob('*') if d.is_dir()],
\* whose enumeration may raise an OSError
FlattenCollectDirs ==
    /\ pc = "move"
    /\ pending = {}
    /\ \E raised \in BOOLEAN :
          IF raised THEN
            /\ errors' = Append(errors, Error("Error enumerating directories", root))
            /\ log' = Append(log, Log("warning", "Error enumerating directories", root))
            /\ todo' = {}
            /\ pc' = "done"
          ELSE
            /\ todo' = collect_dirs(root)
            /\ pc' = IF collect_dirs(root) = {} THEN "done" ELSE "prune"
            /\ UNCHANGED <<errors, log>>
    /\ UNCHANGED <<fs, noRead, noWrite, root, emptyFolders, sortedPaths, idx,
                   successCount, fs0, touched, op, conflictMode,
                   pending, moved, skipped, removedFolders, moves,
                   replicateVars, countVars, validateVars, detailVars, guiVars>>

\* one iteration of the loop over sorted(dirs) without reverse=True: a
\* shallowest directory not yet looked at
FlattenPruneShallowestFirst(d) ==
    /\ pc = "prune"
    /\ d \in todo
    /\ \A e \in todo : depth(e) >= depth(d)
    /\ todo' = todo \ {d}
    /\ pc' = IF todo = {d} THEN "done" ELSE "prune"
    /\ IF is_folder_empty(d) THEN
         IF ~rmdir(d).raised THEN
           /\ fs' = rmdir(d).fs
           /\ noRead' = noRead \cap DOMAIN fs'
           /\ noWrite' = noWrite \cap DOMAIN fs'
           /\ removedFolders' = removedFolders + 1
           /\ log' = Append(log, Log("info", "Removed empty folder", d))
           /\ UNCHANGED errors
         ELSE
           /\ errors' = Append(errors, Error("Error removing", d))
           /\ log' = Append(log, Log("warning", "Error removing", d))
           /\ UNCHANGED <<fs, noRead, noWrite, removedFolders>>
       ELSE UNCHANGED <<fs, noRead, noWrite, removedFolders, errors, log>>
    /\ UNCHANGED <<root, emptyFolders, sortedPaths, idx, successCount, fs0,
                   touched, op, conflictMode, pending, moved, skipped, moves,
                   replicateVars, countVars, validateVars, detailVars, guiVars>>

\* one iteration of `for d in sorted(dirs, ..., reverse=True)`: a deepest
\* directory not yet looked at
FlattenPrune(d) ==
    /\ pc = "prune"
    /\ d \in todo
    /\ \A e \in todo : depth(e) <= depth(d)
    /\ todo' = todo \ {d}
    /\ pc' = IF todo = {d} THEN "done" ELSE "prune"
    /\ IF is_folder_empty(d) THEN
         IF ~rmdir(d).raised THEN
           /\ fs' = rmdir(d).fs
           /\ noRead' = noRead \cap DOMAIN fs'
           /\ noWrite' = noWrite \cap DOMAIN fs'
           /\ removedFolders' = removedFolders + 1
           /\ log' = Append(log, Log("info", "Removed empty folder", d))
           /\ UNCHANGED errors
         ELSE
           /\ errors' = Append(errors, Error("Error removing", d))
           /\ log' = Append(log, Log("warning", "Error removing", d))
           /\ UNCHANGED <<fs, noRead, noWrite, removedFolders>>
       ELSE UNCHANGED <<fs, noRead, noWrite, removedFolders, errors, log>>
    /\ UNCHANGED <<root, emptyFolders, sortedPaths, idx, successCount, fs0,
                   touched, op, conflictMode, pending, moved, skipped, moves,
                   replicateVars, countVars, validateVars, detailVars, guiVars>>

----------------------------------------------------------------------------
(* scan_folder_structure and create_folder_structure *)

\* what path.rglob('*') yields below d, in its order: the entries of d, then
\* what it yields below each subdirectory of d.  A directory that may not be
\* read is yielded and what it holds is left out without an error; the
\* listing of a directory in faulty raises another OSError (an I/O error, a
\* directory that went away), which ends the enumeration
RECURSIVE rglob_seq(_, _), rglob_rest(_, _)
rglob_seq(d, faulty) ==
    IF d \in faulty THEN [raised |-> TRUE, items |-> <<>>]
    ELSE IF iterdir_raises(d) THEN [raised |-> FALSE, items |-> <<>>]
    ELSE LET below == rglob_rest(SelectSeq(iterdir(d), is_dir), faulty)
         IN [raised |-> below.raised, items |-> iterdir(d) \o below.items]
rglob_rest(ds, faulty) ==
    IF ds = <<>> THEN [raised |-> FALSE, items |-> <<>>]
    ELSE LET first == rglob_seq(Head(ds), faulty)
             rest == rglob_rest(Tail(ds), faulty)
         IN IF first.raised THEN first
            ELSE [raised |-> rest.raised, items |-> first.items \o rest.items]

\* what one scan may meet: no such error, or one directory that raises it
Faults(source_path) ==
    {{}} \cup {{d} : d \in {e \in Dirs : IsPrefix(source_path, e)}}

\* the list scan_folder_structure returns, and whether its except clause ran
scan_folder_structure(source_path, faulty) ==
    IF ~exists(source_path) \/ ~is_dir(source_path)
    THEN [raised |-> FALSE, dirs |-> <<>>]
    ELSE LET walked == rglob_seq(source_path, faulty)
             directories == SelectSeq(walked.items, is_dir)
         IN IF walked.raised THEN [raised |-> TRUE, dirs |-> directories]
            ELSE IF InSeq(source_path, directories)
              THEN [raised |-> FALSE, dirs |-> directories]
            ELSE [raised |-> FALSE, dirs |-> <<source_path>> \o directories]

\* sorted(source_paths, key=lambda p: len(p.parts)): a stable sort
InsertShallowestFirst(s, x) ==
    LET k == Cardinality({i \in 1..Len(s) : depth(s[i]) <= depth(x)})
    IN SubSeq(s, 1, k) \o <<x>> \o SubSeq(s, k + 1, Len(s))

RECURSIVE SortShallowestFirst(_)
SortShallowestFirst(s) ==
    IF s = <<>> THEN <<>>
    ELSE InsertShallowestFirst(SortShallowestFirst(SubSeq(s, 1, Len(s) - 1)), s[Len(s)])

\* source_path.relative_to(base) does not raise ValueError
relative_ok(source_path, base) == IsPrefix(base, source_path)
relative_to(source_path, base) == SubSeq(source_path, Len(base) + 1, Len(source_path))

\* the folders a caller may select as the destination
DestPaths == {<<NameD>>, join(Root, NameY), join(Root, NameA)}

\* _create_folder_structure_thread: the scan, then create_folder_structure
ReplicateStart(src, dst) ==
    /\ pc = "idle"
    /\ op' = "replicate"
    /\ root' = src
    /\ dest' = dst
    /\ \E faulty \in Faults(src) :
          LET scanned == scan_folder_structure(src, faulty) IN
          /\ sourceDirs' = scanned.dirs
          /\ log' = IF scanned.raised
                    THEN Append(log, Log("warning", "Permission error scanning", src))
                    ELSE log
    /\ successCount' = 0
    /\ errors' = <<>>
    /\ fs0' = fs
    /\ touched' = 0
    /\ pc' = "mkroot"
    /\ UNCHANGED <<fs, noRead, noWrite, emptyFolders, sortedPaths, idx,
                   flattenVars, countVars, validateVars, detailVars, guiVars>>

\* the paths a caller may name in source_paths; a path need not exist
SourcePaths == {join(Root, NameX), join(join(Root, NameX), NameX),
                join(Root, NameY), join(Root, NameA)}
\* every list of at most MaxBatch such paths
SourceLists == UNION {[1..n -> SourcePaths] : n \in 0..MaxBatch}

\* create_folder_structure(source_paths, destination_root) called with a list
\* of the caller's own
CreateList(srcs, dst) ==
    /\ pc = "idle"
    /\ op' = "create"
    /\ dest' = dst
    /\ sourceDirs' = srcs
    /\ successCount' = 0
    /\ errors' = <<>>
    /\ fs0' = fs
    /\ touched' = 0
    /\ pc' = "mkroot"
    /\ UNCHANGED <<fs, noRead, noWrite, root, emptyFolders, sortedPaths, idx, log,
                   flattenVars, countVars, validateVars, detailVars, guiVars>>

\* the first statements without the return in the except clause: the loop
\* runs although the destination root could not be created
ReplicateRootContinuing ==
    /\ pc = "mkroot"
    /\ LET made == mkdir_p(fs, dest) IN
         /\ fs' = made.fs
         /\ IF made.raised THEN
              /\ errors' = Append(errors, Error("Cannot create destination root", dest))
              /\ log' = Append(log, Log("error", "Cannot create destination root", dest))
            ELSE UNCHANGED <<errors, log>>
         /\ sortedPaths' = SortShallowestFirst(sourceDirs)
         /\ idx' = 1
         /\ pc' = IF sourceDirs = <<>> THEN "done" ELSE "mkdir"
    /\ UNCHANGED <<noRead, noWrite, root, emptyFolders, successCount, fs0,
                   touched, op, flattenVars, replicateVars, countVars,
                   validateVars, detailVars, guiVars>>

\* destination_root.mkdir(parents=True, exist_ok=True), and the sort
ReplicateRoot ==
    /\ pc = "mkroot"
    /\ LET made == mkdir_p(fs, dest) IN
         /\ fs' = made.fs
         /\ IF made.raised THEN
              /\ errors' = Append(errors, Error("Cannot create destination root", dest))
              /\ log' = Append(log, Log("error", "Cannot create destination root", dest))
              /\ pc' = "done"
              /\ UNCHANGED <<sortedPaths, idx>>
            ELSE
              /\ sortedPaths' = SortShallowestFirst(sourceDirs)
              /\ idx' = 1
              /\ pc' = IF sourceDirs = <<>> THEN "done" ELSE "mkdir"
              /\ UNCHANGED <<errors, log>>
    /\ UNCHANGED <<noRead, noWrite, root, emptyFolders, successCount, fs0,
                   touched, op, flattenVars, replicateVars, countVars,
                   validateVars, detailVars, guiVars>>

\* destination_root / source_path.relative_to(source_paths[0].parent)
destination_of(source_path) ==
    dest \o relative_to(source_path, parent(sourceDirs[1]))

\* one iteration of `for source_path in sorted_paths`; a ValueError of
\* relative_to is not caught and ends the call
ReplicateItem ==
    /\ pc = "mkdir"
    /\ LET source_path == sortedPaths[idx] IN
         IF ~relative_ok(source_path, parent(sourceDirs[1])) THEN
           /\ pc' = "raised"
           /\ UNCHANGED <<fs, idx, successCount, errors, log>>
         ELSE
           LET destination_path == destination_of(source_path)
               made == mkdir_p(fs, destination_path)
           IN /\ fs' = made.fs
              /\ IF made.raised THEN
                   /\ errors' = Append(errors, Error("Error creating", destination_path))
                   /\ log' = Append(log, Log("error", "Error creating", destination_path))
                   /\ UNCHANGED successCount
                 ELSE
                   /\ successCount' = successCount + 1
                   /\ log' = Append(log, Log("info", "Created folder", destination_path))
                   /\ UNCHANGED errors
              /\ idx' = idx + 1
              /\ pc' = IF idx + 1 > Len(sortedPaths) THEN "done" ELSE "mkdir"
    /\ UNCHANGED <<noRead, noWrite, root, emptyFolders, sortedPaths, fs0,
                   touched, op, flattenVars, replicateVars, countVars,
                   validateVars, detailVars, guiVars>>

----------------------------------------------------------------------------
(* count_files_root_only, count_files_recursive and the action that calls them *)

\* files, with no test of what the enumeration yields
count_items_recursive(root_path, faulty) ==
    IF ~exists(root_path) \/ ~is_dir(root_path)
    THEN [raised |-> FALSE, n |-> 0, files |-> <<>>]
    ELSE LET walked == rglob_seq(root_path, faulty)
         IN [raised |-> walked.raised, n |-> Len(walked.items), files |-> walked.items]

\* the count without the test for a directory: a file counts itself
count_self_recursive(root_path, faulty) ==
    IF ~exists(root_path) THEN [raised |-> FALSE, n |-> 0, files |-> <<>>]
    ELSE IF is_file(root_path) THEN [raised |-> FALSE, n |-> 1, files |-> <<root_path>>]
    ELSE LET walked == rglob_seq(root_path, faulty)
             found == SelectSeq(walked.items, is_file)
         IN [raised |-> walked.raised, n |-> Len(found), files |-> found]

\* (len(files), files), and whether the except clause ran
count_files_recursive(root_path, faulty) ==
    IF ~exists(root_path) \/ ~is_dir(root_path)
    THEN [raised |-> FALSE, n |-> 0, files |-> <<>>]
    ELSE LET walked == rglob_seq(root_path, faulty)
             found == SelectSeq(walked.items, is_file)
         IN [raised |-> walked.raised, n |-> Len(found), files |-> found]

count_files_root_only(root_path) ==
    IF ~exists(root_path) \/ ~is_dir(root_path) THEN 0
    ELSE IF iterdir_raises(root_path) THEN 0
    ELSE Len(SelectSeq(iterdir(root_path), is_file))

\* the names of the files to count
NameB == <<"b">>
CountedNames == {NameA, NameA1, NameB}
\* the files a tree to count may hold
MaxCounted == 5

\* somebody puts a file into a tree that will be counted
SetupCounted(d, n) ==
    /\ pc = "idle"
    /\ is_dir(d) /\ IsPrefix(Root, d)
    /\ join(d, n) \notin DOMAIN fs
    /\ Cardinality(Leaves) < MaxCounted
    /\ fs' = Put(fs, join(d, n), FileNode(join(d, n)))
    /\ UNCHANGED <<noRead, noWrite, pc, root, emptyFolders, sortedPaths, idx,
                   successCount, errors, log, fs0, touched>>
    /\ UNCHANGED <<op, flattenVars, replicateVars, countVars, validateVars,
                   detailVars, guiVars>>

\* the worker of count_files_action: both counts of one folder
CountFiles(r) ==
    /\ pc = "idle"
    /\ op' = "count"
    /\ root' = r
    /\ fs0' = fs
    /\ touched' = 0
    /\ rootOnly' = count_files_root_only(r)
    /\ \E faulty \in Faults(r) :
          LET counted == count_files_recursive(r, faulty)
              listing == IF is_dir(r) /\ iterdir_raises(r)
                         THEN Append(log, Log("warning", "Error listing", r))
                         ELSE log
          IN /\ total' = counted.n
             /\ files' = counted.files
             /\ log' = IF counted.raised
                       THEN Append(listing, Log("warning", "Error scanning files under", r))
                       ELSE listing
    /\ pc' = "done"
    /\ UNCHANGED <<fs, noRead, noWrite, emptyFolders, sortedPaths, idx,
                   successCount, errors, flattenVars, replicateVars,
                   validateVars, detailVars, guiVars>>

----------
(* validate_path *)

\* the longest input of validate_path, in path segments
MaxSegments == 3

Space == " "
Slash == "/"
NameDot == <<".">>
NameDotDot == <<".", ".">>
NameSpace == <<Space>>

\* str.strip() of the left end only
RECURSIVE lstrip(_)
lstrip(s) ==
    IF s # <<>> /\ Head(s) = Space THEN lstrip(Tail(s)) ELSE s

\* str.strip() of the right end only
RECURSIVE rstrip(_)
rstrip(s) ==
    IF s # <<>> /\ s[Len(s)] = Space THEN rstrip(SubSeq(s, 1, Len(s) - 1)) ELSE s

\* str.strip(): the white space at both ends goes, white space inside stays
strip(s) == rstrip(lstrip(s))

\* the pieces of a string between its slashes
RECURSIVE split(_, _)
split(s, piece) ==
    IF s = <<>> THEN <<piece>>
    ELSE IF Head(s) = Slash THEN <<piece>> \o split(Tail(s), <<>>)
    ELSE split(Tail(s), Append(piece, Head(s)))

\* Path(s): the segments of the string; empty segments and "." go, ".." stays
Path(s) == SelectSeq(split(s, <<>>), LAMBDA g : g # <<>> /\ g # NameDot)

\* what the operating system finds on walking the segments from the working
\* directory, which is Top: ".." steps up, and nothing lies below a
\* non-directory
RECURSIVE lookup(_, _)
lookup(at, segments) ==
    IF segments = <<>> THEN at
    ELSE IF at \notin DOMAIN fs \/ fs[at].kind # "dir" THEN join(at, Head(segments))
    ELSE IF Head(segments) = NameDotDot
         THEN lookup(IF at = Top THEN Top ELSE parent(at), Tail(segments))
    ELSE lookup(join(at, Head(segments)), Tail(segments))

\* Path.exists()
path_exists(path) == lookup(Top, path) \in DOMAIN fs

\* Path.is_dir()
path_is_dir(path) == path_exists(path) /\ fs[lookup(Top, path)].kind = "dir"

\* validate_path with a one-sided strip
validate_path_lstrip(path_str, os_raises) ==
    IF path_str = <<>> \/ lstrip(path_str) = <<>>
    THEN [is_valid |-> FALSE, error_message |-> "Path cannot be empty", path |-> <<>>]
    ELSE LET path == Path(lstrip(path_str))
         IN IF os_raises
            THEN [is_valid |-> FALSE, error_message |-> "Invalid path", path |-> <<>>]
            ELSE IF ~path_exists(path)
            THEN [is_valid |-> FALSE, error_message |-> "Path does not exist", path |-> path]
            ELSE IF ~path_is_dir(path)
            THEN [is_valid |-> FALSE, error_message |-> "Path is not a directory",
                  path |-> path]
            ELSE [is_valid |-> TRUE, error_message |-> "", path |-> path]

\* validate_path: (is_valid, error_message, path_object); os_raises says that
\* exists() or is_dir() raised, as stat does for a folder that may not be
\* searched or a name that is too long
validate_path(path_str, os_raises) ==
    IF path_str = <<>> \/ strip(path_str) = <<>>
    THEN [is_valid |-> FALSE, error_message |-> "Path cannot be empty", path |-> <<>>]
    ELSE LET path == Path(strip(path_str))
         IN IF os_raises
            THEN [is_valid |-> FALSE, error_message |-> "Invalid path", path |-> <<>>]
            ELSE IF ~path_exists(path)
            THEN [is_valid |-> FALSE, error_message |-> "Path does not exist", path |-> path]
            ELSE IF ~path_is_dir(path)
            THEN [is_valid |-> FALSE, error_message |-> "Path is not a directory",
                  path |-> path]
            ELSE [is_valid |-> TRUE, error_message |-> "", path |-> path]

\* the segments somebody may type
Typed == {NameR, NameX, NameB, NameDot, NameDotDot, NameSpace, <<>>}

\* the segments typed, with slashes between them
RECURSIVE joined(_)
joined(segments) ==
    IF segments = <<>> THEN <<>>
    ELSE IF Len(segments) = 1 THEN Head(segments)
    ELSE Head(segments) \o <<Slash>> \o joined(Tail(segments))

\* the strings somebody may type
PathStrings ==
    {joined(segments) : segments \in UNION {[1..n -> Typed] : n \in 0..MaxSegments}}

\* somebody types a path and the program validates it
Validate(s) ==
    /\ pc = "idle"
    /\ op' = "validate"
    /\ pathStr' = s
    /\ fs0' = fs
    /\ touched' = 0
    /\ \E os_raises \in BOOLEAN :
          LET result == validate_path(s, os_raises)
          IN /\ isValid' = result.is_valid
             /\ errorMessage' = result.error_message
             /\ pathObject' = result.path
    /\ pc' = "done"
    /\ UNCHANGED <<fs, noRead, noWrite, root, emptyFolders, sortedPaths, idx,
                   successCount, errors, log, flattenVars, replicateVars,
                   countVars, detailVars, guiVars>>

----------
(* count_files.py *)

\* count_files_in_folder: (file_count, all_files)
RECURSIVE count_files_in_folder(_), count_items(_)
count_files_in_folder(root_path) ==
    IF ~exists(root_path) \/ ~is_dir(root_path) THEN [n |-> 0, files |-> <<>>]
    ELSE IF iterdir_raises(root_path) THEN [n |-> 0, files |-> <<>>]
    ELSE count_items(iterdir(root_path))

\* the loop `for item in items` of count_files_in_folder
count_items(items) ==
    IF items = <<>> THEN [n |-> 0, files |-> <<>>]
    ELSE LET item == Head(items)
             here == IF is_file(item) THEN [n |-> 1, files |-> <<item>>]
                     ELSE IF is_dir(item) THEN count_files_in_folder(item)
                     ELSE [n |-> 0, files |-> <<>>]
             rest == count_items(Tail(items))
         IN [n |-> here.n + rest.n, files |-> here.files \o rest.files]

\* analyze_folder: what it returns as file_count, what it adds to
\* details['total_files'] and what it appends to details['all_files']
RECURSIVE analyze_folder(_), analyze_subdirs(_)
analyze_folder(folder_path) ==
    IF ~exists(folder_path) \/ ~is_dir(folder_path) \/ iterdir_raises(folder_path)
    THEN [file_count |-> 0, total_files |-> 0, all_files |-> <<>>]
    ELSE LET items == iterdir(folder_path)
             file_items == SelectSeq(items, LAMBDA item : is_file(item))
             dirs == SelectSeq(items, LAMBDA item : is_dir(item))
             subs == analyze_subdirs(dirs)
             local_file_count == Len(file_items) + subs.file_count
         IN [file_count |-> local_file_count,
             total_files |-> subs.total_files + local_file_count,
             all_files |-> file_items \o subs.all_files]

\* the loop `for subdir in dirs` of analyze_folder
analyze_subdirs(dirs) ==
    IF dirs = <<>> THEN [file_count |-> 0, total_files |-> 0, all_files |-> <<>>]
    ELSE LET sub == analyze_folder(Head(dirs))
             rest == analyze_subdirs(Tail(dirs))
         IN [file_count |-> sub.file_count + rest.file_count,
             total_files |-> sub.total_files + rest.total_files,
             all_files |-> sub.all_files \o rest.all_files]

\* count_files_with_details: details, of which total_files and all_files
count_files_with_details(root_path) ==
    [total_files |-> analyze_folder(root_path).total_files,
     all_files |-> analyze_folder(root_path).all_files]

\* both counts of count_files.py for one folder
CountDetailed(r) ==
    /\ pc = "idle"
    /\ op' = "detail"
    /\ root' = r
    /\ fs0' = fs
    /\ touched' = 0
    /\ inFolder' = count_files_in_folder(r)
    /\ details' = count_files_with_details(r)
    /\ pc' = "done"
    /\ UNCHANGED <<fs, noRead, noWrite, emptyFolders, sortedPaths, idx,
                   successCount, errors, log, flattenVars, replicateVars,
                   countVars, validateVars, guiVars>>

----------
(* The "Delete Empty Folders" tab of FolderManagerApp *)

\* the clicks on the two buttons in one session
MaxClicks == 4

\* the folders the user may select
BrowsePaths == {Root}

\* what the handlers and threads of the tab leave alone
guiRest == <<pc, root, sortedPaths, idx, successCount, errors, fs0, touched, op,
             flattenVars, replicateVars, countVars, validateVars, detailVars>>

\* the user may click: no message box is open
Clickable == dialog = "none" /\ clicks < MaxClicks

\* browse_delete_folder
BrowseDeleteFolder(folder) ==
    /\ dialog = "none"
    /\ selectedDeletePath' = folder
    /\ UNCHANGED <<fs, noRead, noWrite, emptyFolders, log, guiRest, scanBtn,
                   deleteBtn, dialog, asked, shown, scanWorkers, deleteWorkers,
                   afterQueue, clicks>>

\* scan_empty_folders: a click on scan_btn
ScanEmptyFolders ==
    /\ Clickable
    /\ scanBtn = "normal"
    /\ clicks' = clicks + 1
    /\ IF selectedDeletePath = "None" THEN
         /\ dialog' = "error"
         /\ UNCHANGED <<scanBtn, scanWorkers>>
       ELSE
         /\ scanBtn' = "disabled"
         /\ scanWorkers' = scanWorkers + 1
         /\ UNCHANGED dialog
    /\ UNCHANGED <<fs, noRead, noWrite, emptyFolders, log, guiRest,
                   selectedDeletePath, deleteBtn, asked, shown, deleteWorkers,
                   afterQueue>>

\* _scan_empty_folders_thread
ScanEmptyFoldersThread ==
    /\ scanWorkers > 0
    /\ scanWorkers' = scanWorkers - 1
    /\ emptyFolders' = scan_empty_folder_structure(selectedDeletePath)
    /\ afterQueue' = Append(afterQueue, [callback |-> "_scan_empty_folders_complete"])
    /\ UNCHANGED <<fs, noRead, noWrite, log, guiRest, selectedDeletePath, scanBtn,
                   deleteBtn, dialog, asked, shown, deleteWorkers, clicks>>

\* _scan_empty_folders_complete, run by the event loop
ScanEmptyFoldersComplete ==
    /\ afterQueue # <<>>
    /\ Head(afterQueue).callback = "_scan_empty_folders_complete"
    /\ afterQueue' = Tail(afterQueue)
    /\ scanBtn' = "normal"
    /\ shown' = SortShallowestFirst(emptyFolders)
    /\ deleteBtn' = IF emptyFolders # <<>> THEN "normal" ELSE "disabled"
    /\ UNCHANGED <<fs, noRead, noWrite, emptyFolders, log, guiRest,
                   selectedDeletePath, dialog, asked, scanWorkers, deleteWorkers,
                   clicks>>

\* delete_empty_folders of the application, up to the confirmation: a click
\* on delete_btn
DeleteEmptyFoldersAsk ==
    /\ Clickable
    /\ deleteBtn = "normal"
    /\ clicks' = clicks + 1
    /\ IF emptyFolders = <<>> THEN
         /\ dialog' = "warning"
         /\ UNCHANGED asked
       ELSE
         /\ dialog' = "confirm"
         /\ asked' = Len(emptyFolders)
    /\ UNCHANGED <<fs, noRead, noWrite, emptyFolders, log, guiRest,
                   selectedDeletePath, scanBtn, deleteBtn, shown, scanWorkers,
                   deleteWorkers, afterQueue>>

\* the user closes a message box that asks nothing, or answers no
Dismiss ==
    /\ dialog # "none"
    /\ dialog' = "none"
    /\ UNCHANGED <<fs, noRead, noWrite, emptyFolders, log, guiRest,
                   selectedDeletePath, scanBtn, deleteBtn, asked, shown,
                   scanWorkers, deleteWorkers, afterQueue, clicks>>

\* delete_empty_folders of the application after the answer yes: the thread
\* is started; what was asked and what was listed then is kept with it
DeleteEmptyFoldersConfirmed ==
    /\ dialog = "confirm"
    /\ dialog' = "none"
    /\ deleteBtn' = "disabled"
    /\ deleteWorkers' = Append(deleteWorkers,
           [state |-> "started", asked |-> asked, shown |-> shown,
            folder_paths |-> <<>>, sorted_paths |-> <<>>, i |-> 1,
            success_count |-> 0, errors |-> <<>>])
    /\ UNCHANGED <<fs, noRead, noWrite, emptyFolders, log, guiRest,
                   selectedDeletePath, scanBtn, asked, shown, scanWorkers,
                   afterQueue, clicks>>

\* _delete_empty_folders_thread calls delete_empty_folders(self.empty_folders)
DeleteEmptyFoldersThread(k) ==
    /\ deleteWorkers[k].state = "started"
    /\ deleteWorkers' = [deleteWorkers EXCEPT
           ![k].state = "running",
           ![k].folder_paths = emptyFolders,
           ![k].sorted_paths = SortDeepestFirst(emptyFolders)]
    /\ UNCHANGED <<fs, noRead, noWrite, emptyFolders, log, guiRest,
                   selectedDeletePath, scanBtn, deleteBtn, dialog, asked, shown,
                   scanWorkers, afterQueue, clicks>>

\* one iteration of the loop of delete_empty_folders in the thread k
DeleteThreadStep(k) ==
    /\ deleteWorkers[k].state = "running"
    /\ deleteWorkers[k].i <= Len(deleteWorkers[k].sorted_paths)
    /\ LET w == deleteWorkers[k]
           folder_path == w.sorted_paths[w.i]
           removes == exists(folder_path) /\ is_dir(folder_path)
                        /\ is_folder_empty(folder_path) /\ ~rmdir(folder_path).raised
           msg == IF ~(exists(folder_path) /\ is_dir(folder_path))
                    THEN "Path does not exist or is not a directory"
                  ELSE IF ~is_folder_empty(folder_path) THEN "Folder not empty, skipping"
                  ELSE "Error deleting"
           level == IF msg = "Error deleting" THEN "error" ELSE "warning"
       IN IF removes THEN
            /\ fs' = rmdir(folder_path).fs
            /\ noRead' = noRead \cap DOMAIN fs'
            /\ noWrite' = noWrite \cap DOMAIN fs'
            /\ log' = Append(log, Log("info", "Deleted empty folder", folder_path))
            /\ deleteWorkers' = [deleteWorkers EXCEPT
                   ![k].i = w.i + 1, ![k].success_count = w.success_count + 1]
          ELSE
            /\ log' = Append(log, Log(level, msg, folder_path))
            /\ deleteWorkers' = [deleteWorkers EXCEPT
                   ![k].i = w.i + 1,
                   ![k].errors = Append(w.errors, Error(msg, folder_path))]
            /\ UNCHANGED <<fs, noRead, noWrite>>
    /\ UNCHANGED <<emptyFolders, guiRest, selectedDeletePath, scanBtn, deleteBtn,
                   dialog, asked, shown, scanWorkers, afterQueue, clicks>>

\* delete_empty_folders returns in the thread k, which hands the result to
\* the event loop and ends
DeleteThreadReturn(k) ==
    /\ deleteWorkers[k].state = "running"
    /\ deleteWorkers[k].i > Len(deleteWorkers[k].sorted_paths)
    /\ deleteWorkers' = [deleteWorkers EXCEPT ![k].state = "returned"]
    /\ afterQueue' = Append(afterQueue, [callback |-> "_delete_empty_folders_complete"])
    /\ UNCHANGED <<fs, noRead, noWrite, emptyFolders, log, guiRest,
                   selectedDeletePath, scanBtn, deleteBtn, dialog, asked, shown,
                   scanWorkers, clicks>>

\* _delete_empty_folders_complete, run by the event loop when no message box
\* is open; it ends with a message box of its own
DeleteEmptyFoldersComplete ==
    /\ afterQueue # <<>>
    /\ Head(afterQueue).callback = "_delete_empty_folders_complete"
    /\ dialog = "none"
    /\ afterQueue' = Tail(afterQueue)
    /\ deleteBtn' = "disabled"
    /\ scanBtn' = "normal"
    /\ shown' = <<>>
    /\ emptyFolders' = <<>>
    /\ dialog' = "info"
    /\ \E k \in 1..Len(deleteWorkers) :
          /\ deleteWorkers[k].state = "returned"
          /\ \A j \in 1..(k - 1) : deleteWorkers[j].state # "returned"
          /\ deleteWorkers' = [deleteWorkers EXCEPT ![k].state = "completed"]
    /\ UNCHANGED <<fs, noRead, noWrite, log, guiRest, selectedDeletePath, asked,
                   scanWorkers, clicks>>

----------

Init ==
    /\ fs = (Top :> DirNode) @@ (Root :> DirNode)
    /\ noRead = {}
    /\ noWrite = {}
    /\ pc = "idle"
    /\ root = Root
    /\ emptyFolders = <<>>
    /\ sortedPaths = <<>>
    /\ idx = 0
    /\ successCount = 0
    /\ errors = <<>>
    /\ log = <<>>
    /\ fs0 = (Top :> DirNode) @@ (Root :> DirNode)
    /\ touched = 0
    /\ op = "none"
    /\ conflictMode = "rename"
    /\ pending = {}
    /\ todo = {}
    /\ moved = 0
    /\ skipped = 0
    /\ removedFolders = 0
    /\ moves = <<>>
    /\ sourceDirs = <<>>
    /\ dest = Top
    /\ rootOnly = 0
    /\ total = 0
    /\ files = <<>>
    /\ pathStr = <<>>
    /\ isValid = FALSE
    /\ errorMessage = ""
    /\ pathObject = <<>>
    /\ inFolder = [n |-> 0, files |-> <<>>]
    /\ details = [total_files |-> 0, all_files |-> <<>>]
    /\ selectedDeletePath = "None"
    /\ scanBtn = "normal"
    /\ deleteBtn = "disabled"
    /\ dialog = "none"
    /\ asked = 0
    /\ shown = <<>>
    /\ scanWorkers = 0
    /\ deleteWorkers = <<>>
    /\ afterQueue = <<>>
    /\ clicks = 0

Next ==
    \/ \E d \in Dirs, n \in DirNames : SetupMkdir(d, n)
    \/ \E d \in Dirs : SetupFile(d, NameA)
    \/ \E d \in Dirs : SetupOther(d, NameS)
    \/ \E d \in Dirs : SetupDenyRead(d)
    \/ \E d \in Dirs : SetupDenyWrite(d)
    \/ \E d \in Dirs, n \in DirNames : RaceCreate(d, n, DirNode)
    \/ \E d \in Dirs : RaceCreate(d, NameA, FileNode(<<>>))
    \/ \E p \in DOMAIN fs : RaceRemove(p)
    \/ \E r \in ArgPaths : Scan(r)
    \/ DeleteScanned
    \/ DeleteCheck
    \/ DeleteRmdir

Spec == Init /\ [][Next]_vars

\* delete_empty_folders on any list of paths, nobody else touching the tree
NextBatch ==
    \/ \E d \in Dirs, n \in DirNames : SetupMkdir(d, n)
    \/ \E d \in Dirs : SetupFile(d, NameA)
    \/ \E d \in Dirs : SetupOther(d, NameS)
    \/ \E d \in Dirs : SetupDenyRead(d)
    \/ \E d \in Dirs : SetupDenyWrite(d)
    \/ \E b \in Batches : DeleteBatch(b)
    \/ DeleteCheck
    \/ DeleteRmdir

SpecBatch == Init /\ [][NextBatch]_vars

\* flatten_to_root, nobody else touching the tree
NextFlatten ==
    \/ \E d \in Dirs, n \in DirNames : SetupMkdir(d, n)
    \/ \E d \in Dirs, n \in {NameA, NameA1} : SetupFile(d, n)
    \/ \E d \in Dirs : SetupOther(d, NameS)
    \/ \E d \in Dirs : SetupDenyRead(d)
    \/ \E d \in Dirs : SetupDenyWrite(d)
    \/ \E r \in ArgPaths, mode \in ConflictModes : FlattenStart(r, mode)
    \/ \E src \in pending : FlattenMove(src)
    \/ FlattenCollectDirs
    \/ \E d \in todo : FlattenPrune(d)

SpecFlatten == Init /\ [][NextFlatten]_vars

\* scan_folder_structure and create_folder_structure, nobody else touching
\* the tree
NextReplicate ==
    \/ \E d \in Dirs, n \in DirNames : SetupMkdir(d, n)
    \/ \E d \in Dirs : SetupFile(d, NameA)
    \/ \E d \in Dirs : SetupOther(d, NameS)
    \/ \E d \in Dirs : SetupDenyRead(d)
    \/ \E d \in Dirs : SetupDenyWrite(d)
    \/ \E src \in ArgPaths, dst \in DestPaths : ReplicateStart(src, dst)
    \/ ReplicateRoot
    \/ ReplicateItem

SpecReplicate == Init /\ [][NextReplicate]_vars

\* create_folder_structure on any list of paths, nobody else touching the tree
NextCreate ==
    \/ \E d \in Dirs, n \in DirNames : SetupMkdir(d, n)
    \/ \E d \in Dirs : SetupFile(d, NameA)
    \/ \E d \in Dirs : SetupDenyWrite(d)
    \/ \E srcs \in SourceLists, dst \in DestPaths : CreateList(srcs, dst)
    \/ ReplicateRoot
    \/ ReplicateItem

SpecCreate == Init /\ [][NextCreate]_vars

\* the two counts, nobody else touching the tree
NextCount ==
    \/ \E d \in Dirs, n \in DirNames : SetupMkdir(d, n)
    \/ \E d \in Dirs, n \in CountedNames : SetupCounted(d, n)
    \/ \E d \in Dirs : SetupDenyRead(d)
    \/ \E r \in ArgPaths : CountFiles(r)

SpecCount == Init /\ [][NextCount]_vars

\* a typed path is validated against a small tree
NextValidate ==
    \/ SetupMkdir(Root, NameX)
    \/ \E d \in Dirs : SetupCounted(d, NameB)
    \/ \E s \in PathStrings : Validate(s)

SpecValidate == Init /\ [][NextValidate]_vars

\* the counts of count_files.py, nobody else touching the tree
NextDetail ==
    \/ \E d \in Dirs, n \in DirNames : SetupMkdir(d, n)
    \/ \E d \in Dirs, n \in CountedNames : SetupCounted(d, n)
    \/ \E d \in Dirs : SetupDenyRead(d)
    \/ \E r \in ArgPaths : CountDetailed(r)

SpecDetail == Init /\ [][NextDetail]_vars

\* the tab at work: the user, the event loop, the threads, and somebody who
\* makes folders in the tree meanwhile
NextGui ==
    \/ \E n \in DirNames : SetupMkdir(Root, n)
    \/ \E folder \in BrowsePaths : BrowseDeleteFolder(folder)
    \/ ScanEmptyFolders
    \/ ScanEmptyFoldersThread
    \/ ScanEmptyFoldersComplete
    \/ DeleteEmptyFoldersAsk
    \/ Dismiss
    \/ DeleteEmptyFoldersConfirmed
    \/ \E k \in 1..Len(deleteWorkers) : DeleteEmptyFoldersThread(k)
    \/ \E k \in 1..Len(deleteWorkers) : DeleteThreadStep(k)
    \/ \E k \in 1..Len(deleteWorkers) : DeleteThreadReturn(k)
    \/ DeleteEmptyFoldersComplete

SpecGui == Init /\ [][NextGui]_vars

----------------------------------------------------------------------------
(* Properties of scan_empty_folder_structure and delete_empty_folders *)

\* the tree is as the scan saw it
Untouched == touched = 0
JustScanned == pc = "scanned" /\ Untouched

Classified == Range(emptyFolders)
\* root and the directories below it
Subtree(f, r) == {d \in DOMAIN f : f[d].kind = "dir" /\ IsPrefix(r, d)}

\* C1: no directory the scan returns has a file anywhere below it, in the
\* tree the scan ran on
C1_ClassifiedHoldNoFile ==
    pc \in {"scanned", "check", "rmdir", "done"} =>
        \A D \in Classified : FilesBelow(fs0, D) = {}

\* a scan that classified a folder although its parent holds a file
C1_Witness ==
    /\ JustScanned
    /\ \E D \in Classified : D # root /\ FilesBelow(fs, parent(D)) # {}

\* C2 as claimed: every listable directory at or below root with no file
\* below it is returned by the scan
C2_AsClaimed ==
    (JustScanned /\ is_dir(root)) =>
        \A D \in Subtree(fs, root) :
            (D \notin noRead /\ FilesBelow(fs, D) = {}) => D \in Classified

\* the directories from root down to D, and those below D
Around(D) == {d \in Dirs : IsPrefix(root, d) /\ (IsPrefix(d, D) \/ IsPrefix(D, d))}

\* C2, amended: every directory at or below root with no file below it is
\* returned by the scan, also when an ancestor holds files, provided that it,
\* the directories from root down to it and the directories below it can all
\* be listed
C2_ListableEmptyIsClassified ==
    (JustScanned /\ is_dir(root)) =>
        \A D \in Subtree(fs, root) :
            (Around(D) \cap noRead = {} /\ FilesBelow(fs, D) = {}) => D \in Classified

\* an empty folder is classified below a parent that holds a file
C2_Witness ==
    /\ JustScanned /\ is_dir(root)
    /\ \E D \in Classified :
          /\ Entries(fs, D) = {}
          /\ D # root
          /\ \E f \in Entries(fs, parent(D)) : is_file(f)

NoOsError == noRead = {} /\ noWrite = {}

\* C3 as claimed: with nobody else touching the tree and no OS error, deleting
\* what the scan returned removes every classified folder, reports no error,
\* leaves every file and every folder with a file below it, and a second scan
\* returns nothing
C3_AsClaimed ==
    (pc = "done" /\ Untouched /\ NoOsError) =>
        /\ successCount = Len(emptyFolders)
        /\ errors = <<>>
        /\ \A D \in Classified : D \notin DOMAIN fs
        /\ \A q \in DOMAIN fs0 :
              (fs0[q].kind = "file" \/ FilesBelow(fs0, q) # {}) =>
                  (q \in DOMAIN fs /\ fs[q] = fs0[q])
        /\ scan_empty_folder_structure(root) = <<>>

\* the same on a tree that holds files and directories only
C3_FilesAndDirsOnly ==
    (pc = "done" /\ Untouched /\ NoOsError
       /\ \A q \in DOMAIN fs0 : fs0[q].kind \in {"file", "dir"}) =>
        /\ successCount = Len(emptyFolders)
        /\ errors = <<>>
        /\ \A D \in Classified : D \notin DOMAIN fs
        /\ \A q \in DOMAIN fs0 :
              (fs0[q].kind = "file" \/ FilesBelow(fs0, q) # {}) =>
                  (q \in DOMAIN fs /\ fs[q] = fs0[q])
        /\ scan_empty_folder_structure(root) = <<>>

\* a step of delete_empty_folders itself
DeleteStep == pc \in {"check", "rmdir"} /\ touched' = touched

\* C4: whatever the external actor adds and whenever, a step of
\* delete_empty_folders on a directory that has an entry at that moment
\* removes nothing and records an error for it, and no step removes or changes
\* a file, or removes a directory that has an entry
C4_NeverRemovesNonEmpty ==
    [][DeleteStep =>
        LET p == sortedPaths[idx] IN
        /\ \A q \in DOMAIN fs :
              fs[q].kind # "dir" => (q \in DOMAIN fs' /\ fs'[q] = fs[q])
        /\ \A d \in DOMAIN fs \ DOMAIN fs' : Entries(fs, d) = {}
        /\ (is_dir(p) /\ Entries(fs, p) # {}) =>
              /\ fs' = fs
              /\ Len(errors') = Len(errors) + 1
              /\ errors'[Len(errors')].path = p]_vars

\* rmdir was called on a folder that somebody filled after the re-check
C4_Witness ==
    /\ touched > 0
    /\ \E i \in 1..Len(errors) :
          /\ errors[i].msg = "Error deleting"
          /\ is_dir(errors[i].path)
          /\ Entries(fs, errors[i].path) # {}
          /\ \E q \in Entries(fs, errors[i].path) : q \notin DOMAIN fs0

Count(s, x) == Cardinality({i \in 1..Len(s) : s[i] = x})
ErrorsFor(q) == Cardinality({i \in 1..Len(errors) : errors[i].path = q})
DeletedLogs(q) ==
    Cardinality({i \in 1..Len(log) :
                    log[i].msg = "Deleted empty folder" /\ log[i].path = q})

\* C5: delete_empty_folders works through the whole list: each path handed in
\* is one success or one error, so when it returns the successes and the
\* errors add up to the length of the list
C5_OneOutcomePerPath ==
    /\ pc \in {"check", "rmdir"} =>
          (idx <= Len(sortedPaths) /\ successCount + Len(errors) = idx - 1)
    /\ pc = "done" =>
          /\ successCount + Len(errors) = Len(emptyFolders)
          /\ \A q \in Classified :
                Count(emptyFolders, q) = ErrorsFor(q) + DeletedLogs(q)

\* a list with a path twice, a path that is no directory, a failing rmdir
C5_Witness ==
    /\ pc = "done"
    /\ Len(emptyFolders) = MaxBatch
    /\ successCount >= 1
    /\ \E i \in 1..Len(errors) :
          errors[i].msg \in {"Error deleting", "Path does not exist or is not a directory"}

----------------------------------------------------------------------------
(* Properties of flatten_to_root *)

Flattening == op = "flatten" /\ pc \in {"move", "prune", "done"}
Flattened == op = "flatten" /\ pc = "done" /\ is_dir(root)

\* one of the call's two enumerations of the tree raised an OS error
EnumerationRaised ==
    \E i \in 1..Len(errors) :
        errors[i].msg \in {"Error scanning", "Error enumerating directories"}

\* the file an iteration of the move loop takes
Taken == CHOOSE x \in pending : x \notin pending'
MoveStep == pc = "move" /\ pending' # pending

\* "stem (n)suffix" for the file names of the model, written out
NumberedName(nm, n) ==
    IF nm = NameA THEN <<"a", " ", "(">> \o str(n) \o <<")", ".", "t">>
    ELSE IF nm = NameA1
      THEN <<"a", " ", "(", "1", ")", " ", "(">> \o str(n) \o <<")", ".", "t">>
    ELSE nm \o <<" ", "(">> \o str(n) \o <<")">>

\* n is the least number from 1 whose name is free at root
LeastFree(nm, n) ==
    /\ join(root, NumberedName(nm, n)) \notin DOMAIN fs
    /\ \A m \in 1..(n - 1) : join(root, NumberedName(nm, m)) \in DOMAIN fs

\* the subtree of r held just two files before the call, both named a.t, at
\* different depths
TwoFilesNamedA(r) ==
    \E f, g \in FilesBelow(fs0, r) :
        /\ FilesBelow(fs0, r) = {f, g}
        /\ name(f) = NameA /\ name(g) = NameA
        /\ depth(f) # depth(g)

FilesAt(f, r) == {q \in Entries(f, r) : f[q].kind = "file"}

\* C6: in rename mode, with no OS error, the file taken goes to root/name when
\* that is free, and else to root/"stem (n)suffix" for the least n >= 1 that
\* is free, an n no larger than the number of root's entries; two files named
\* a.t at different depths end as root/a.t and root/"a (1).t"
C6_RenameTakesLeastFreeNumber ==
    /\ [][(MoveStep /\ conflictMode = "rename" /\ noWrite = {}) =>
            LET nm == name(Taken)
                most == Cardinality(Entries(fs, root))
            IN IF join(root, nm) \notin DOMAIN fs
               THEN fs' = Put(Remove(fs, {Taken}), join(root, nm), fs[Taken])
               ELSE \E n \in 1..most :
                      /\ LeastFree(nm, n)
                      /\ fs' = Put(Remove(fs, {Taken}),
                                   join(root, NumberedName(nm, n)), fs[Taken])]_vars
    /\ [](( Flattened /\ conflictMode = "rename" /\ NoOsError
             /\ ~EnumerationRaised /\ TwoFilesNamedA(root)) =>
            /\ FilesAt(fs, root) = {join(root, NameA), join(root, NameA1)}
            /\ {fs[q].content : q \in FilesAt(fs, root)} = FilesBelow(fs0, root)
            /\ FilesBelow(fs, root) = FilesAt(fs, root))

\* a file went to "a (2).t": a.t and "a (1).t" were both taken
C6_Witness ==
    /\ Flattened /\ conflictMode = "rename"
    /\ \E i \in 1..Len(moves) :
          moves[i][2] = join(root, <<"a", " ", "(", "2", ")", ".", "t">>)

SkipLogs == {i \in 1..Len(log) : log[i].msg = "Skip due to conflict"}

\* C7: in skip mode a file whose name exists at root when it is taken is left
\* where it is and counted once in skippedConflicts; it and its folder are
\* still there when flatten returns; two files named a.t at different depths
\* end as one a.t at root, the other in its place, and skippedConflicts = 1
C7_SkipLeavesFileInPlace ==
    /\ [][(MoveStep /\ conflictMode = "skip" /\ join(root, name(Taken)) \in DOMAIN fs) =>
            /\ fs' = fs
            /\ skipped' = skipped + 1
            /\ moved' = moved /\ moves' = moves /\ errors' = errors]_vars
    /\ []((Flattening /\ conflictMode = "skip") =>
            /\ skipped = Cardinality(SkipLogs)
            /\ \A i \in SkipLogs :
                  /\ log[i].path \in DOMAIN fs
                  /\ fs[log[i].path] = fs0[log[i].path]
                  /\ is_dir(parent(log[i].path)))
    /\ [](( Flattened /\ conflictMode = "skip" /\ NoOsError
             /\ ~EnumerationRaised /\ TwoFilesNamedA(root)) =>
            /\ FilesAt(fs, root) = {join(root, NameA)}
            /\ skipped = 1
            /\ \E f \in FilesBelow(fs0, root) :
                  /\ parent(f) # root
                  /\ f \in DOMAIN fs /\ fs[f] = fs0[f]
                  /\ FilesBelow(fs, root) = {join(root, NameA), f})

\* two nested files named a.t, flattened in skip mode
C7_Witness ==
    /\ Flattened /\ conflictMode = "skip" /\ NoOsError
    /\ TwoFilesNamedA(root)
    /\ FilesAt(fs0, root) = {}
    /\ skipped = 1

Sources == {moves[i][1] : i \in 1..Len(moves)}
Targets == {moves[i][2] : i \in 1..Len(moves)}

\* C8: the files directly in root before the call are there afterwards, name
\* and content unchanged: none is taken for moving, and no move goes to a
\* name that exists at root or that an earlier move went to
C8_RootFilesUntouched ==
    Flattening =>
        /\ \A f \in FilesAt(fs0, root) : f \in DOMAIN fs /\ fs[f] = fs0[f]
        /\ pending \cap Entries(fs0, root) = {}
        /\ Sources \cap Entries(fs0, root) = {}
        /\ Targets \cap DOMAIN fs0 = {}
        /\ Cardinality(Targets) = Len(moves)

\* a nested file had the name of a file at root, and was moved
C8_Witness ==
    /\ Flattened
    /\ \E i \in 1..Len(moves) :
          /\ join(root, name(moves[i][1])) \in FilesAt(fs0, root)
          /\ moves[i][2] # join(root, name(moves[i][1]))

RemovedByFlatten == {log[i].path : i \in {j \in 1..Len(log) : log[j].msg = "Removed empty folder"}}

\* C9 as claimed: every directory the prune phase removes had a file below it
\* before the call
C9_AsClaimed ==
    Flattening => \A d \in RemovedByFlatten : FilesBelow(fs0, d) # {}

\* C9, amended: every directory the prune phase removes lies below root and
\* has no entry at that moment: before the call it held nothing but files this
\* call moved to root and directories this call removed, possibly nothing at
\* all; a directory that has an entry at that moment is never removed
C9_RemovedAreEmptyThen ==
    /\ [][(pc = "prune") =>
            \A d \in DOMAIN fs \ DOMAIN fs' :
                is_dir(d) /\ Entries(fs, d) = {} /\ IsProperPrefix(root, d)]_vars
    /\ [](Flattening =>
            \A d \in RemovedByFlatten :
                /\ d \notin DOMAIN fs
                /\ Below(fs0, d) \subseteq Sources \cup RemovedByFlatten)

\* one folder removed after its file was moved, one that held no file
C9_Witness ==
    /\ Flattened
    /\ \E d \in RemovedByFlatten : FilesBelow(fs0, d) # {}
    /\ \E d \in RemovedByFlatten : FilesBelow(fs0, d) = {}

----------------------------------------------------------------------------
(* Properties of scan_folder_structure and create_folder_structure *)

Replicated == op = "replicate" /\ pc = "done" /\ is_dir(root)
\* the scan's enumeration raised an OS error
ScanRaised == \E i \in 1..Len(log) : log[i].msg = "Permission error scanning"

\* the paths of the directories at and below r, relative to r
RelativeDirs(f, r) == {relative_to(d, r) : d \in Subtree(f, r)}

DestFree == dest \notin DOMAIN fs0 \/ (fs0[dest].kind = "dir" /\ Entries(fs0, dest) = {})

\* C10 as claimed, with no OS error and the destination outside the source:
\* the directories at the destination, relative to it, are those of the source
\* relative to the source, and the destination holds no file
C10_AsClaimed ==
    (Replicated /\ NoOsError /\ ~ScanRaised /\ DestFree /\ ~IsPrefix(root, dest)) =>
        /\ RelativeDirs(fs, dest) = RelativeDirs(fs0, root)
        /\ FilesBelow(fs, dest) = {}

\* what the code does there: the source's directories appear below
\* destination/<name of the source folder>, and no file does
C10_UnderSourceName ==
    (Replicated /\ NoOsError /\ ~ScanRaised /\ DestFree /\ ~IsPrefix(root, dest)) =>
        /\ RelativeDirs(fs, join(dest, name(root))) = RelativeDirs(fs0, root)
        /\ Entries(fs, dest) = {join(dest, name(root))}
        /\ FilesBelow(fs, dest) = {}
        /\ successCount = Len(sourceDirs) /\ errors = <<>>

Created == op = "create" /\ pc = "done"

\* C11 as claimed: for any list and a destination root that can be created,
\* create_folder_structure does not raise, and returns with one success or
\* one error for every path of the list
C11_AsClaimed ==
    op = "create" =>
        /\ pc # "raised"
        /\ (pc = "done" /\ sortedPaths # <<>>) =>
               successCount + Len(errors) = Len(sourceDirs)

\* every path of the list lies at or below the parent of the first one
FirstIsBase == \A i \in 1..Len(sourceDirs) :
                  relative_ok(sourceDirs[i], parent(sourceDirs[1]))

\* what the code does: when every path lies at or below the parent of the
\* first, the call returns with one success or one error for every path; a
\* failure on one path does not stop the later ones
C11_WhenFirstIsBase ==
    (op = "create" /\ FirstIsBase) =>
        /\ pc # "raised"
        /\ pc = "mkdir" => successCount + Len(errors) = idx - 1
        /\ (pc = "done" /\ sortedPaths # <<>>) =>
               successCount + Len(errors) = Len(sourceDirs)

\* a list whose first path failed and whose second was created
C11_Continues ==
    /\ Created /\ Len(sourceDirs) = 2
    /\ Len(errors) = 1 /\ errors[1].msg = "Error creating"
    /\ successCount = 1
    /\ log[Len(log)].msg = "Created folder"

\* the paths from the top down to p, and the deepest of them that exists
Ancestors(p) == {SubSeq(p, 1, k) : k \in 0..Len(p)}
Nearest(f, p) ==
    CHOOSE a \in Ancestors(p) \cap DOMAIN f :
        \A b \in Ancestors(p) \cap DOMAIN f : Len(b) <= Len(a)
\* p is a directory of f, or can be made one: what exists on the way to it is
\* a directory, and where something has to be added, a writable one
Creatable(f, p) ==
    LET a == Nearest(f, p)
    IN f[a].kind = "dir" /\ (a = p \/ a \notin noWrite)

\* C12: when the destination root cannot be created, the call is over right
\* after the attempt, with success_count 0, the one error for the destination
\* root, and the filesystem as it was: no directory was made for any source
C12_RootFailureAborts ==
    (op \in {"create", "replicate"} /\ pc # "mkroot" /\ ~Creatable(fs0, dest)) =>
        /\ pc = "done"
        /\ successCount = 0
        /\ Len(errors) = 1
        /\ errors[1] = Error("Cannot create destination root", dest)
        /\ fs = fs0

\* a list of two paths and a destination root that is a file, or is missing
\* in a write-protected folder
C12_Witness ==
    /\ Created /\ Len(sourceDirs) = 2
    /\ ~Creatable(fs0, dest)
    /\ Len(errors) = 1

JustWalked == op = "replicate" /\ pc = "mkroot" /\ is_dir(root)

\* C13 as claimed: whether or not the enumeration raised an OS error, the
\* list scan_folder_structure returns for an existing directory holds that
\* directory once, every directory once at most, and no path that is no
\* directory
C13_AsClaimed ==
    JustWalked =>
        /\ Count(sourceDirs, root) = 1
        /\ \A d \in Range(sourceDirs) : Count(sourceDirs, d) = 1 /\ is_dir(d)

\* what the code does: when the enumeration did not raise, the list starts
\* with the source and holds, once each, the directories below it that can be
\* reached through listable directories, and nothing else; when it raised, the
\* source is not in the list
C13_WithoutOsError ==
    JustWalked =>
        IF ScanRaised THEN
            /\ ~InSeq(root, sourceDirs)
            /\ \A d \in Range(sourceDirs) : Count(sourceDirs, d) = 1 /\ is_dir(d)
        ELSE
            /\ sourceDirs[1] = root
            /\ Range(sourceDirs) = {root} \cup {d \in rglob(root) : is_dir(d)}
            /\ \A d \in Range(sourceDirs) : Count(sourceDirs, d) = 1

\* an enumeration that raised after it had yielded directories
C13_Interrupted == JustWalked /\ ScanRaised /\ Len(sourceDirs) >= 2

----------------------------------------------------------------------------
(* Further properties of flatten_to_root *)

RootValid == root \in DOMAIN fs0 /\ fs0[root].kind = "dir"
\* the enumeration that collects all_files raised an OS error
CollectRaised == errors # <<>> /\ errors[1].msg = "Error scanning"

\* all_files as the call collected it, when its enumeration did not raise
NestedFiles0 ==
    {p \in FilesBelow(fs0, root) : parent(p) # root /\ Listed(root, p)}

MoveErrors == {i \in 1..Len(errors) : errors[i].msg = "Error moving"}
SkippedFiles == {log[i].path : i \in SkipLogs}
FailedFiles == {errors[i].path : i \in MoveErrors}

\* the OS refuses to take an entry out of f's folder, or to add one to root
MoveMustFail(f) == parent(f) \in noWrite \/ root \in noWrite

\* C15: a file whose move raises an OS error gets one error string and no
\* entry in moves; every file moved before is still at its destination and
\* gone from its source; and the loop goes on: when it is over, every
\* collected file was moved, skipped or gave its one error
C15_MoveFailureIsLocal ==
    (Flattening /\ RootValid /\ ~CollectRaised) =>
        /\ \A f \in NestedFiles0 \ pending :
              /\ Cardinality({i \in MoveErrors : errors[i].path = f}) =
                    (IF MoveMustFail(f) /\ f \notin SkippedFiles THEN 1 ELSE 0)
              /\ MoveMustFail(f) => f \notin Sources
        /\ FailedFiles \subseteq NestedFiles0 \ pending
        /\ \A i \in 1..Len(moves) :
              /\ moves[i][1] \notin DOMAIN fs
              /\ moves[i][2] \in DOMAIN fs
              /\ fs[moves[i][2]] = fs0[moves[i][1]]
        /\ pc \in {"prune", "done"} =>
              /\ pending = {}
              /\ moved + skipped + Cardinality(MoveErrors) = Cardinality(NestedFiles0)

\* a file was moved, the next one failed, and a third was moved after it
C15_Witness ==
    /\ Flattened
    /\ \E i, j, k \in 1..Len(log) :
          /\ i < j /\ j < k
          /\ log[i].msg = "Moved file"
          /\ log[j].msg = "Error moving"
          /\ log[k].msg = "Moved file"
    /\ \A i \in 1..Len(moves) : moves[i][2] \in DOMAIN fs

\* C16: moved and skipped_conflicts together never exceed the number of
\* files collected; moves has one entry for each file counted in moved, each
\* the pair of a collected file, gone from there, and of the path directly in
\* root that now holds it, a path that did not exist before the call
C16_MovesRecordSuccessfulMoves ==
    (Flattening /\ RootValid) =>
        /\ moved + skipped <= Cardinality(NestedFiles0)
        /\ Len(moves) = moved
        /\ Cardinality(Sources) = moved
        /\ Sources \cap SkippedFiles = {}
        /\ Cardinality(SkippedFiles) = skipped
        /\ \A i \in 1..Len(moves) :
              LET src == moves[i][1]
                  dst == moves[i][2]
              IN /\ src \in NestedFiles0
                 /\ parent(dst) = root
                 /\ dst \notin DOMAIN fs0
                 /\ src \notin DOMAIN fs
                 /\ dst \in DOMAIN fs /\ fs[dst] = fs0[src]

\* two files moved and one skipped in one call, and a call with a failed move
C16_Witness ==
    /\ Flattened
    /\ moved = 2 /\ skipped = 1
    /\ Cardinality(NestedFiles0) = 3

----------------------------------------------------------------------------
(* Further properties of scan_empty_folder_structure *)

\* the directories at and below r with no file anywhere below them
FileFree(r) == {E \in Subtree(fs, r) : FilesBelow(fs, E) = {}}
\* E lies neither on the way from the root to D nor below D
Unrelated(E, D) == ~IsPrefix(E, D) /\ ~IsPrefix(D, E)

\* C17: when the listing of a directory D at or below root fails, the scan
\* still returns; its result holds neither D, nor a directory below D, nor
\* one between root and D; and any other directory is in it exactly when it
\* would be without the failure, that is, when no file lies below it
C17_ListingFailureIsLocal ==
    (JustScanned /\ is_dir(root)) =>
        /\ noRead = {} => Classified = FileFree(root)
        /\ \A D \in noRead \cap Subtree(fs, root) :
              /\ \A E \in Classified : Unrelated(E, D)
              /\ noRead = {D} =>
                    \A E \in Subtree(fs, root) :
                        Unrelated(E, D) => (E \in Classified <=> E \in FileFree(root))

\* R/x cannot be listed and has no file below it, nor has its neighbour R/y,
\* which is classified
C17_Witness ==
    /\ JustScanned /\ root = Root
    /\ noRead = {join(Root, NameX)}
    /\ Below(fs, join(Root, NameX)) # {}
    /\ FilesBelow(fs, Root) = {}
    /\ Classified = {join(Root, NameY)}

\* the directories strictly above the path f, from r down
Above(r, f) == {A \in Subtree(fs, r) : IsProperPrefix(A, f)}

\* C18 as claimed: with every listing succeeding, a directory with no file
\* directly in it is returned by the scan, whatever files lie deeper
C18_AsClaimed ==
    (JustScanned /\ is_dir(root) /\ noRead = {}) =>
        \A A \in Subtree(fs, root) : FilesAt(fs, A) = {} => A \in Classified

\* C18, amended: a file keeps its own directory and every directory above it,
\* up to root, out of the result, also those with no file directly in them;
\* with every listing succeeding it keeps out nothing else: the directories
\* beside and below those are all returned
C18_FileExcludesAllAncestors ==
    (JustScanned /\ is_dir(root)) =>
        /\ \A f \in FilesBelow(fs, root) : Above(root, f) \cap Classified = {}
        /\ noRead = {} =>
              Classified = Subtree(fs, root) \ UNION {Above(root, f) : f \in FilesBelow(fs, root)}

\* a file two levels down: root and R/x hold no file themselves and are not
\* returned, the empty R/x/y and R/y are
C18_Witness ==
    /\ JustScanned /\ root = Root /\ noRead = {}
    /\ FilesBelow(fs, Root) = {join(join(join(Root, NameX), NameX), NameA)}
    /\ Classified = {join(join(Root, NameX), NameY), join(Root, NameY)}

\* the subdirectories of D
SubDirs(D) == {c \in Entries(fs, D) : is_dir(c)}
\* the scan went into D: D and the directories from root down to it are listable
Visited(D) == \A d \in noRead : ~(IsPrefix(root, d) /\ IsPrefix(d, D))

\* the tree of the scenario: R/x/y empty, a file in R/x/x, nothing else
MixedTree ==
    DOMAIN fs = {Top, Root, join(Root, NameX), join(join(Root, NameX), NameY),
                 join(join(Root, NameX), NameX),
                 join(join(join(Root, NameX), NameX), NameA)}

\* C19: a visited directory with no file directly in it, one subdirectory
\* returned and one not, is not returned, while each of its subdirectories
\* that is listable and has no entry is; for R/x/y empty next to R/x/x with
\* a file, the scan of R returns R/x/y and nothing else
C19_MixedParentNotEmitted ==
    (JustScanned /\ is_dir(root)) =>
        /\ \A D \in Subtree(fs, root) :
              ( /\ Visited(D) /\ FilesAt(fs, D) = {}
                /\ SubDirs(D) \cap Classified # {}
                /\ SubDirs(D) \ Classified # {} ) =>
                  /\ D \notin Classified
                  /\ \A c \in SubDirs(D) :
                        (c \notin noRead /\ Entries(fs, c) = {}) => c \in Classified
        /\ (root = Root /\ NoOsError /\ MixedTree) =>
              emptyFolders = <<join(join(Root, NameX), NameY)>>

\* the scenario itself
C19_Witness ==
    /\ JustScanned /\ root = Root /\ NoOsError /\ MixedTree
    /\ Classified = {join(join(Root, NameX), NameY)}

----------------------------------------------------------------------------
(* Properties of count_files_root_only and count_files_recursive *)

Counted == op = "count" /\ pc = "done" /\ is_dir(root)
CountRaised == \E i \in 1..Len(log) : log[i].msg = "Error scanning files under"
NoTwice(s) == \A i, j \in 1..Len(s) : s[i] = s[j] => i = j

\* root holds two files and one folder, and that folder three files
TwoAndThree ==
    /\ Cardinality(FilesAt(fs, root)) = 2
    /\ Cardinality(Entries(fs, root)) = 3
    /\ \E d \in Entries(fs, root) :
          /\ is_dir(d)
          /\ Cardinality(FilesAt(fs, d)) = 3
          /\ Cardinality(Below(fs, d)) = 3

\* C20 as claimed: for every existing directory, the first count is the
\* number of files directly in it, the second lists every file below it once
\* and is the length of that list, and the first is at most the second
C20_AsClaimed ==
    Counted =>
        /\ rootOnly = Cardinality(FilesAt(fs, root))
        /\ Range(files) = FilesBelow(fs, root)
        /\ NoTwice(files)
        /\ total = Len(files)
        /\ rootOnly <= total

\* C20, amended: the second count is always the length of its list, which
\* holds files below root only, none twice, and the first count is never more
\* than the files directly in root; when root and every directory below it
\* can be listed and no enumeration raises, the first count is the number of
\* files directly in root, the list holds every file below root, and the
\* first count is at most the second: 2 and 5 for two files beside a folder
\* of three
C20_CountsOfListableTree ==
    Counted =>
        /\ total = Len(files)
        /\ NoTwice(files)
        /\ Range(files) \subseteq FilesBelow(fs, root)
        /\ rootOnly <= Cardinality(FilesAt(fs, root))
        /\ (noRead \cap Subtree(fs, root) = {} /\ ~CountRaised) =>
              /\ rootOnly = Cardinality(FilesAt(fs, root))
              /\ Range(files) = FilesBelow(fs, root)
              /\ rootOnly <= total
              /\ TwoAndThree => (rootOnly = 2 /\ total = 5)

\* the scenario: two files beside a folder of three, counted 2 and 5
C20_Witness ==
    /\ Counted /\ TwoAndThree
    /\ rootOnly = 2 /\ total = 5

-----------------------------------------------------------------------------
(* Properties of validate_path *)

\* validate_path has returned
Validated == op = "validate" /\ pc = "done"

\* the string holds nothing but white space
Blank(s) == \A i \in 1..Len(s) : s[i] = Space

\* the string without the white space at its two ends
Trimmed(s) ==
    LET inked == {i \in 1..Len(s) : s[i] # Space}
    IN IF inked = {} THEN <<>>
       ELSE SubSeq(s, CHOOSE i \in inked : \A j \in inked : i <= j,
                      CHOOSE i \in inked : \A j \in inked : j <= i)

\* the entry the string names, whether or not it exists
Target(s) == lookup(Top, Path(Trimmed(s)))

\* the outcome that the tree alone decides: not found, not a directory, success
DecidedByTree ==
    IF Target(pathStr) \notin DOMAIN fs
    THEN ~isValid /\ errorMessage = "Path does not exist"
    ELSE IF fs[Target(pathStr)].kind # "dir"
    THEN ~isValid /\ errorMessage = "Path is not a directory"
    ELSE isValid /\ errorMessage = ""

\* C22 as stated: validate(pathString) has exactly the four outcomes empty
\* input, not found, not a directory and success, in that order of
\* precedence, and success returns the canonical path, which is the path of
\* the directory that was found
C22_AsClaimed ==
    Validated =>
        IF Blank(pathStr)
        THEN ~isValid /\ errorMessage = "Path cannot be empty"
        ELSE /\ DecidedByTree
             /\ isValid => pathObject = Target(pathStr)

\* C22: validate(pathString) fails with the empty-input error when the
\* string is empty or only white space; otherwise it fails with "Invalid
\* path" when the operating system raised on examining the path, otherwise
\* with not found, otherwise with not a directory, and otherwise succeeds.
\* Exactly one of the five outcomes holds.  Success returns the segments of
\* the trimmed string without the empty ones and the "." ones: they lead to
\* an existing directory, and they are its canonical path when no ".."
\* is among them.
C22_FiveOutcomes ==
    Validated =>
        /\ isValid <=> errorMessage = ""
        /\ errorMessage \in {"", "Path cannot be empty", "Invalid path",
                             "Path does not exist", "Path is not a directory"}
        /\ IF Blank(pathStr)
           THEN errorMessage = "Path cannot be empty" /\ pathObject = <<>>
           ELSE \/ errorMessage = "Invalid path" /\ pathObject = <<>>
                \/ /\ DecidedByTree
                   /\ pathObject = Path(Trimmed(pathStr))
                   /\ isValid => /\ is_dir(lookup(Top, pathObject))
                                 /\ ~InSeq(NameDotDot, pathObject)
                                        => pathObject = Target(pathStr)

\* a padded string with a ".." segment was accepted
C22_Witness ==
    /\ Validated /\ isValid
    /\ pathStr # Trimmed(pathStr)
    /\ InSeq(NameDotDot, pathObject)
    /\ pathObject # Target(pathStr)

-----------------------------------------------------------------------------
(* One log record per attempted mutation *)

\* the step attempts folder_path.rmdir() in delete_empty_folders
RmdirAttempt == pc = "rmdir" /\ pc' # "rmdir"

\* the step attempts destination_root.mkdir()
MkrootAttempt == pc = "mkroot"

\* the step attempts destination_path.mkdir()
MkdirAttempt == pc = "mkdir" /\ pc' # "raised"

\* the step attempts shutil.move()
MoveAttempt == pc = "move" /\ pending' # pending /\ skipped' = skipped

\* the step attempts d.rmdir() in flatten_to_root
PruneAttempt == pc = "prune" /\ \E d \in todo \ todo' : is_folder_empty(d)

\* the step appends one record, and the record tells success from failure
OneRecord(success) ==
    /\ Len(log') = Len(log) + 1
    /\ SubSeq(log', 1, Len(log)) = log
    /\ log'[Len(log')].level = "info" <=> success

\* C23 as stated: every attempted removal, creation (that of the destination
\* root included) and move appends exactly one log record with its outcome
C23_AsClaimed ==
    [][/\ RmdirAttempt => OneRecord(Cardinality(DOMAIN fs') < Cardinality(DOMAIN fs))
       /\ MkrootAttempt => OneRecord(is_dir(dest)')
       /\ MkdirAttempt => OneRecord(successCount' = successCount + 1)
       /\ MoveAttempt => OneRecord(moved' = moved + 1)
       /\ PruneAttempt => OneRecord(Cardinality(DOMAIN fs') < Cardinality(DOMAIN fs))]_vars

\* the attempts other than a successful creation of the destination root
\* append exactly one log record with their outcome
C23_ExceptDestinationRoot ==
    [][/\ RmdirAttempt => OneRecord(Cardinality(DOMAIN fs') < Cardinality(DOMAIN fs))
       /\ MkrootAttempt /\ ~is_dir(dest)' => OneRecord(FALSE)
       /\ MkrootAttempt /\ is_dir(dest)' => log' = log
       /\ MkdirAttempt => OneRecord(successCount' = successCount + 1)
       /\ MoveAttempt => OneRecord(moved' = moved + 1)
       /\ PruneAttempt => OneRecord(Cardinality(DOMAIN fs') < Cardinality(DOMAIN fs))]_vars

\* a destination root was created and the log says nothing
C23_Unlogged ==
    /\ op = "create" /\ pc = "done"
    /\ dest \notin DOMAIN fs0 /\ is_dir(dest)
    /\ sourceDirs = <<>>
    /\ log = <<>>

-----------------------------------------------------------------------------
(* The order of delete_empty_folders *)

\* the paths the loop has dealt with so far, in the order of their records
Handled == [i \in 1..Len(log) |-> log[i].path]

\* C24: of two input paths of delete_empty_folders of which one lies below
\* the other, the lower one is dealt with (and its removal attempted) before
\* the upper one, whatever the order of the input; every input path is dealt
\* with once
C24_DescendantsFirst ==
    (op = "delete" /\ pc \in {"check", "rmdir", "done"}) =>
        /\ \A i, j \in 1..Len(log) :
              i < j => ~IsProperPrefix(Handled[i], Handled[j])
        /\ pc = "done" =>
              /\ Len(log) = Len(emptyFolders)
              /\ \A i \in 1..Len(emptyFolders) : InSeq(emptyFolders[i], Handled)

\* a folder was given before its subfolder, and both were removed, the
\* subfolder first
C24_Witness ==
    /\ op = "delete" /\ pc = "done"
    /\ emptyFolders = <<join(Root, NameX), join(join(Root, NameX), NameY)>>
    /\ Handled = <<join(join(Root, NameX), NameY), join(Root, NameX)>>
    /\ successCount = 2

-----------------------------------------------------------------------------
(* The order of the steps of flatten_to_root *)

MoveRecord(r) == r.msg \in {"Skip due to conflict", "Moved file", "Error moving"}
PruneRecord(r) == r.msg \in {"Removed empty folder", "Error removing"}

\* the files the move loop has dealt with
Processed == {log[i].path : i \in {k \in 1..Len(log) : MoveRecord(log[k])}}

\* C25: in flatten the files to move are fixed before the first move: each
\* file dealt with was nested in the tree when the call began, is dealt with
\* once, and no file that a move put under root is dealt with again; no
\* directory is removed before the last move was attempted; and a directory is
\* examined for removal only after all the directories below it
C25_StepsOrdered ==
    Flattening =>
        /\ \A i, j \in 1..Len(log) :
              (i < j /\ MoveRecord(log[i]) /\ MoveRecord(log[j]))
                  => log[i].path # log[j].path
        /\ (Processed \cup pending) \subseteq NestedFiles0
        /\ Processed \cap pending = {}
        /\ \A i \in 1..Len(moves) : moves[i][2] \notin (Processed \cup pending)
        /\ \A i, j \in 1..Len(log) :
              (PruneRecord(log[i]) /\ MoveRecord(log[j])) => j < i
        /\ pc = "move" =>
              /\ removedFolders = 0 /\ todo = {}
              /\ {d \in DOMAIN fs : fs[d].kind = "dir"}
                     = {d \in DOMAIN fs0 : fs0[d].kind = "dir"}
        /\ pc = "prune" => pending = {}
        /\ \A e \in todo, a \in DOMAIN fs :
              (IsProperPrefix(root, a) /\ IsProperPrefix(a, e)) => a \in todo

\* two files were moved, then a folder and the folder that held it were
\* removed
C25_Witness ==
    /\ Flattened
    /\ moved >= 2 /\ removedFolders >= 2
    /\ \E i, j \in 1..Len(log) :
          /\ i < j
          /\ log[i].msg = "Removed empty folder"
          /\ log[j].msg = "Removed empty folder"
          /\ IsProperPrefix(log[j].path, log[i].path)

-----------------------------------------------------------------------------
(* flatten_to_root keeps every file *)

\* the files below root when the call began, and those directly in root
Files0 == FilesBelow(fs0, root)
RootFiles0 == {p \in Files0 : parent(p) = root}

\* the paths directly in root that now hold the file that was at p
CopiesInRoot(p) ==
    {q \in FilesBelow(fs, root) : parent(q) = root /\ fs[q].content = fs0[p].content}

\* C26 as stated: after flatten, in either conflict mode and whatever moves
\* failed, root's subtree holds as many files as before, every nested file is
\* either at its original path or at exactly one path directly in root, and
\* no two files were moved to the same destination
C26_AsClaimed ==
    Flattened =>
        /\ Cardinality(FilesBelow(fs, root)) = Cardinality(Files0)
        /\ \A p \in Files0 \ RootFiles0 :
              \/ is_file(p) /\ fs[p] = fs0[p] /\ CopiesInRoot(p) = {}
              \/ p \notin DOMAIN fs /\ Cardinality(CopiesInRoot(p)) = 1
        /\ \A i, j \in 1..Len(moves) : i # j => moves[i][2] # moves[j][2]

\* no file is lost or overwritten: every file of the tree is still at its
\* original path or directly in root, the files that were directly in root
\* are as they were, and no two files were moved to the same destination
C26_NothingLost ==
    Flattening =>
        /\ \A p \in Files0 \ RootFiles0 :
              \/ is_file(p) /\ fs[p] = fs0[p]
              \/ p \notin DOMAIN fs /\ Cardinality(CopiesInRoot(p)) = 1
        /\ \A p \in RootFiles0 : is_file(p) /\ fs[p] = fs0[p]
        /\ \A i, j \in 1..Len(moves) : i # j => moves[i][2] # moves[j][2]

\* a file is both where it was and directly in root, and no move is reported
C26_Duplicated ==
    /\ Flattened
    /\ \E p \in Files0 \ RootFiles0 :
          is_file(p) /\ CopiesInRoot(p) # {} /\ p \in FailedFiles
    /\ Cardinality(FilesBelow(fs, root)) > Cardinality(Files0)

-----------------------------------------------------------------------------
(* A flatten without errors *)

\* the directories below root when the call began
SubDirs0 == {d \in Below(fs0, root) : fs0[d].kind = "dir"}

\* the tree at root held files and directories only
FilesAndDirs0 == \A q \in Below(fs0, root) : fs0[q].kind \in {"file", "dir"}

\* what count_files_recursive(root) could list when the call began
Listable0 == {p \in Files0 : Listed(root, p)}

\* flatten in rename mode returned with an empty errors list
FlattenedCleanly ==
    Flattened /\ conflictMode = "rename" /\ FilesAndDirs0 /\ errors = <<>>

C27_UnlistableFolderStays ==
    /\ FlattenedCleanly
    /\ \E d \in noRead : IsProperPrefix(root, d) /\ FilesBelow(fs, d) # {}

-----------------------------------------------------------------------------
(* The two counts of count_files.py *)

Detailed == op = "detail" /\ pc = "done"

\* the folders from root down to the one that holds the file p
LevelsAbove(p) == depth(p) - depth(root)

\* the sum of LevelsAbove over the files of the sequence s
RECURSIVE SumOfLevels(_)
SumOfLevels(s) == IF s = <<>> THEN 0 ELSE LevelsAbove(Head(s)) + SumOfLevels(Tail(s))

\* C28 as stated: for every tree, details['total_files'] equals the count of
\* count_files_in_folder and the length of details['all_files']
C28_AsClaimed ==
    Detailed =>
        /\ details.total_files = inFolder.n
        /\ details.total_files = Len(details.all_files)

\* the two file lists agree and hold each listed file once; total_files
\* counts a file once for every folder from root down to the one holding it
C28_CountedOncePerLevel ==
    Detailed =>
        /\ inFolder.n = Len(inFolder.files)
        /\ Len(details.all_files) = Len(inFolder.files)
        /\ Range(details.all_files) = Range(inFolder.files)
        /\ \A i, j \in 1..Len(inFolder.files) :
              i # j => inFolder.files[i] # inFolder.files[j]
        /\ Range(inFolder.files) = {p \in FilesBelow(fs, root) : Listed(root, p)}
        /\ details.total_files = SumOfLevels(details.all_files)

\* a folder with two files of its own and three in a subfolder: 5 files,
\* total_files 8
C28_Overcounted ==
    /\ Detailed
    /\ inFolder.n = 5
    /\ Cardinality(FilesAt(fs, root)) = 2
    /\ details.total_files = 8

-----------------------------------------------------------------------------
(* The threads of the "Delete Empty Folders" tab *)

\* the deletions confirmed whose completion callback has not run yet
InFlight == {k \in 1..Len(deleteWorkers) : deleteWorkers[k].state # "completed"}

\* the threads that are inside their call of delete_empty_folders
Calling == {k \in 1..Len(deleteWorkers) : deleteWorkers[k].state = "running"}

\* C29 as stated: from the confirmation of a deletion until its completion
\* callback has run no second deletion is started, so at most one delete
\* thread runs at any time
C29_AsClaimed == Cardinality(InFlight) <= 1

\* two threads are inside delete_empty_folders at once, each with folders
\* still to go through
C29_TwoCallsAtOnce ==
    \E j, k \in Calling :
        /\ j # k
        /\ deleteWorkers[j].i <= Len(deleteWorkers[j].sorted_paths)
        /\ deleteWorkers[k].i <= Len(deleteWorkers[k].sorted_paths)

\* the threads that have made their call of delete_empty_folders
Called == {k \in 1..Len(deleteWorkers) : deleteWorkers[k].state # "started"}

\* C30 as stated: the list a delete thread passes to delete_empty_folders has
\* the size named in the confirmation and holds the folders that the last
\* completed scan listed; no scan thread replaces it in between
C30_AsClaimed ==
    \A k \in Called :
        /\ Len(deleteWorkers[k].folder_paths) = deleteWorkers[k].asked
        /\ Range(deleteWorkers[k].folder_paths) = Range(deleteWorkers[k].shown)

\* the first deletion of a session removed a folder that was never listed
\* and that is not among those the confirmation counted
C30_DeletedUnlisted ==
    /\ Len(deleteWorkers) = 1
    /\ deleteWorkers[1].state = "completed"
    /\ deleteWorkers[1].success_count > deleteWorkers[1].asked
    /\ \E i \in 1..Len(log) :
          /\ log[i].msg = "Deleted empty folder"
          /\ ~InSeq(log[i].path, deleteWorkers[1].shown)

\* with one deletion confirmed and no scan thread at work in between, the
\* list passed is the list that was listed and counted
C30_WithoutConcurrentScan ==
    \A k \in Called :
        (Len(deleteWorkers) = 1 /\ clicks = 2) =>
            /\ Len(deleteWorkers[k].folder_paths) = deleteWorkers[k].asked
            /\ Range(deleteWorkers[k].folder_paths) = Range(deleteWorkers[k].shown)

====
